---- MODULE Spec2Model ----
(***************************************************************************)
(* Trailing-stop supervisor (profit_trailing.py) and its order executor    *)
(* (trade_manager.py) against an execution venue, and the price feed with  *)
(* its watchdog (binance_ws.py).                                           *)
(*                                                                         *)
(* Units: prices are integers in tenths of a price unit (99.4 is 994),     *)
(* so that the 0.60 percent fixed offset and the halved excursion are      *)
(* exact; order timestamps are in milliseconds; supervisor time is in      *)
(* seconds, and so is the feed's clock.  An absent value (Python None) is the empty sequence <<>>, a   *)
(* present value v is <<v>>.                                               *)
(***************************************************************************)
EXTENDS Integers, Sequences, FiniteSets, TLC

VARIABLES
    current_price,          \* BinanceWebsocket.current_price: <<>> or <<p>>
    last_update_time,       \* BinanceWebsocket.last_update_time
    clock,                  \* time.time() as the feed reads it, in seconds
    stop_event,             \* BinanceWebsocket._stop_event is set
    ws_state,               \* the connection of the current ws_app:
                            \* "open" | "failed" | "closed"
    mon_pc,                 \* _monitor_connection: "sleeping" | "exited"
    mon_wake,               \* the time at which the monitor's time.sleep(3) ends
    reconnect_times,        \* the times at which the monitor has reconnected
    ws_lock,                \* BinanceWebsocket._lock: <<>> or <<h>>, the handler holding it
    handler,                \* the _on_message call running in each socket thread
    written,                \* history: which message wrote the stored price and which
                            \* the stored time
    handled,                \* history of _on_message: the latest message handled and the
                            \* price of the latest valid trade message
    connections,            \* the WebSocketApp objects _start_socket has created, in
                            \* order: "connecting" | "open" | "closed"
    ws_app,                 \* BinanceWebsocket.ws_app: 0 (None) or the number of the
                            \* object it refers to
    new_threads,            \* socket threads that are started and have not yet run
                            \* the first statement of _start_socket
    stop_pc,                \* BinanceWebsocket.stop: "idle" | "set" | "done"
    take_profit_detected,   \* ProfitTrailing.take_profit_detected
    last_signal,            \* SignalProcessor.last_signal: <<>> or <<text>>, the text of
                            \* the last processed signal, stripped and in lower case
    signal_call,            \* the latest call of process_signal: <<>> or <<[text, outcome]>>,
                            \* its signal's text (stripped, lower case) and how it ended:
                            \* "returned" | "raised"
    venue_position,         \* the venue's position in SYMBOL: <<>> or <<pos>>
    venue_open_orders,      \* sides of the orders the venue reports as open
    venue_order_seq,        \* number of orders the venue has accepted (next id)
    redis_up,               \* whether the Redis server takes commands
    now_ms,                 \* the clock read by int(time.time() * 1000)
    pc,                     \* ProfitTrailing.track: position of the loop
    wait_time,              \* track: local wait_time
    elapsed,                \* now - last_position_fetch_time, saturating
    cached_positions,       \* ProfitTrailing.cached_positions
    last_had_positions,     \* ProfitTrailing.last_had_positions
    position_max_profit,    \* ProfitTrailing.position_max_profit
    position_trailing_stop, \* ProfitTrailing.position_trailing_stop
    live_price,             \* track: local live_price of the cycle
    engine_ret,             \* what the cycle's latest update_trailing_stop call returned
    close_failed,           \* "no" | "this_cycle" | "earlier": a forced close failed and the
                            \* venue's position has not changed since
    orders,                 \* OrderManager.orders of the TradeManager (insertion order)
    archive,                \* the Redis list written by OrderManager._store_order
    tm_call,                \* the place_market_order call waiting in time.sleep(1): <<>> or <<call>>
    sent,                   \* the requests passed to exchange.create_order in this cycle (or call)
    tm_ret,                 \* how the latest place_market_order call went:
                            \* "idle" | "pending" | "none" | "order" | "raised"
    tm_last,                \* the latest place_market_order call's arguments: <<>> or <<args>>
    reopen,                 \* history of the recorded position: "no" | "closed" (it was closed
                            \* at the venue) | "cleared" (and a poll then found no open
                            \* position) | "first_unseen" | "first_seen" (this cycle made the
                            \* first engine update for a position open after that)
    last_eval,              \* history: <<>> or <<[stop, flag]>>, the stop the latest cycle
                            \* computed in its for loop for the position the venue holds,
                            \* and the take-profit flag it was computed with
    verified_closed         \* history: <<>> or <<key>>, the position whose forced close
                            \* the supervisor has seen verified, while the venue holds
                            \* no position

vars == <<current_price, last_update_time, clock, stop_event, ws_state, mon_pc,
          mon_wake, reconnect_times, ws_lock, handler, written, handled,
          connections, ws_app, new_threads, stop_pc,
          take_profit_detected, last_signal, signal_call, venue_position,
          venue_open_orders,
          venue_order_seq, redis_up, now_ms, pc, wait_time, elapsed, cached_positions,
          last_had_positions, position_max_profit, position_trailing_stop,
          live_price, engine_ret, close_failed, orders, archive,
          tm_call, sent, tm_ret, tm_last, reopen, last_eval, verified_closed>>

watch_vars == <<clock, stop_event, ws_state, mon_pc, mon_wake, reconnect_times>>
lock_vars == <<ws_lock, handler, written>>
signal_vars == <<take_profit_detected, last_signal, signal_call>>
conn_vars == <<connections, ws_app, new_threads, stop_pc>>
feed_vars == <<current_price, last_update_time, watch_vars, lock_vars, handled, conn_vars>>
\* everything but the feed
rest_vars == <<take_profit_detected, last_signal, signal_call, venue_position, venue_open_orders, venue_order_seq,
               redis_up, now_ms, pc, wait_time, elapsed, cached_positions,
               last_had_positions, position_max_profit, position_trailing_stop,
               live_price, engine_ret, close_failed, orders, archive, tm_call, sent,
               tm_ret, tm_last, reopen, last_eval, verified_closed>>
venue_vars == <<venue_position, venue_open_orders, venue_order_seq, redis_up>>
engine_vars == <<position_max_profit, position_trailing_stop>>
loop_vars == <<pc, wait_time, elapsed, cached_positions, last_had_positions,
               live_price, engine_ret>>
tm_vars == <<orders, archive, tm_call, sent, tm_ret, tm_last>>

----------------------------------------------------------------------------
(* Values *)

None == <<>>
Some(v) == <<v>>
Max(a, b) == IF a >= b THEN a ELSE b
Min(a, b) == IF a <= b THEN a ELSE b
Abs(x) == IF x < 0 THEN 0 - x ELSE x

\* a price given in whole units, in tenths
U(x) == 10 * x

\* config.SYMBOL
SYMBOL == "BTCUSD"

\* config.FIXED_STOP_OFFSET_PERCENT = 0.60, in hundredths of a percent
FIXED_STOP_OFFSET_PERCENT_X100 == 60

\* the profit-lock threshold of update_trailing_stop (400 price units)
LOCK_THRESHOLD == U(400)

\* ProfitTrailing.position_fetch_interval and the sleeps of track
POSITION_FETCH_INTERVAL == 5
WAIT_STEP == 2
WAIT_BUDGET == 30

\* BinanceWebsocket.reconnect_interval (s) and the monitor's time.sleep(3)
RECONNECT_INTERVAL == 10
MONITOR_SLEEP == 3

\* the socket threads that can be inside _on_message at once: the thread of
\* the connection the monitor is closing and the thread of the new one
Handlers == {"old", "new"}

\* a socket thread outside _on_message after its n-th message
IdleHandler(n) == [pc |-> "idle", n |-> n, at |-> 0]

\* the staleness window of the local order cache, in milliseconds
STALE_MS == 60000

\* OrderManager._store_order keeps the last 1000 archived records
ARCHIVE_KEEP == 1000

----------------------------------------------------------------------------
(* Bounds of the model *)

\* the venue accepts at most this many orders in a run; afterwards
\* exchange.create_order raises
MaxOrders == 1

\* the feed's clock runs from 0 to MaxClock: with no tick the monitor
\* polls at 3, 6, ..., 18 and finds the feed stale at 12, 15 and 18
MaxClock == 18

\* the messages each socket thread handles one by one
MaxMessages == 2

\* the records a run of _store_order calls appends to the archive
MaxArchived == 1001

\* the positions the venue can hold in SYMBOL: a long of 1 entered at 100.0
\* and a short of 2 entered at 450.0
LongPos == [symbol |-> SYMBOL, entry |-> Some(U(100)), size |-> 1]
ShortPos == [symbol |-> SYMBOL, entry |-> Some(U(450)), size |-> 0 - 2]

\* live prices (tenths): 50.0 (below the long's fixed stop; the short's
\* excursion is exactly 400), 99.4 (the long's fixed stop), 452.7 (the
\* short's fixed stop; the long's excursion is below 400), 550.0 (above the
\* short's fixed stop; the long's excursion is 450)
Prices == {500, 994, 4527, 5500}
\* a long of 1 whose record carries no entry price
NoEntryPos == [symbol |-> SYMBOL, entry |-> None, size |-> 1]
VenuePositionChoices == {LongPos, ShortPos, NoEntryPos}

\* records a position query may return besides the position in SYMBOL:
\* nothing, a position in another product, a flat (zero size) record
ForeignPos == [symbol |-> "ETHUSD", entry |-> Some(U(50)), size |-> 3]
FlatPos == [symbol |-> SYMBOL, entry |-> Some(U(100)), size |-> 0]
ExtraRecords == {<<>>, <<ForeignPos>>, <<FlatPos>>}

\* how long a cycle takes (s): its sleep of 1 s plus its calls to the venue
CycleSeconds == {3, 5}

\* instants at which the clock is read (ms)
TimePoints == {0, 60000, 61000}

Sides == {"buy", "sell"}

----------------------------------------------------------------------------
(* TrailingStopEngine: ProfitTrailing.update_trailing_stop *)

\* key = f"{pos_symbol}_{entry_val}_{size_val}"
Key(pos) == <<pos.symbol, pos.entry, pos.size>>

EmptyTable == [k \in {} |-> 0]

\* dict.get(key, 0)
GetOrZero(tab, key) == IF key \in DOMAIN tab THEN tab[key] ELSE 0

\* dict[key] = v
Put(tab, key, v) == [k \in DOMAIN tab \cup {key} |-> IF k = key THEN v ELSE tab[k]]

\* current_profit = live_price - entry if size > 0 else entry - live_price
CurrentProfit(entry, size, live) == IF size > 0 THEN live - entry ELSE entry - live

\* variant: the previous record is not consulted
NewMaxForgetful(prev_max, current_profit) == current_profit

\* new_max = max(prev_max, current_profit)
NewMax(prev_max, current_profit) == Max(prev_max, current_profit)

\* variant: the threshold itself does not select lock_50
SelectRuleStrict(flag, new_max) ==
    IF flag /\ new_max > LOCK_THRESHOLD THEN "lock_50" ELSE "fixed_stop"

\* if self.take_profit_detected and new_max >= 400
SelectRule(flag, new_max) ==
    IF flag /\ new_max >= LOCK_THRESHOLD THEN "lock_50" ELSE "fixed_stop"

\* variant: the excursion is not halved
LockHalfStopWhole(entry, size, new_max) ==
    IF size > 0 THEN entry + new_max ELSE entry - new_max

\* new_trailing = entry + (new_max / 2) if size > 0 else entry - (new_max / 2)
LockHalfStop(entry, size, new_max) ==
    IF size > 0 THEN entry + (new_max \div 2) ELSE entry - (new_max \div 2)

\* variant: the offset is subtracted whatever the side
FixedStopOneSided(entry, size) ==
    entry - ((entry * FIXED_STOP_OFFSET_PERCENT_X100) \div 10000)

\* default_offset = entry * (config.FIXED_STOP_OFFSET_PERCENT / 100)
\* new_trailing = entry - default_offset if size > 0 else entry + default_offset
FixedStop(entry, size) ==
    LET default_offset == (entry * FIXED_STOP_OFFSET_PERCENT_X100) \div 10000
    IN  IF size > 0 THEN entry - default_offset ELSE entry + default_offset

\* variant: only a missing entry price stops the call
UnusableEntryOnly(pos) == pos.entry = None

\* float(entry_val) raises (the entry price is missing or not a number), or
\* the size is zero: the call returns (None, None, None)
Unusable(pos) == pos.entry = None \/ pos.size = 0

\* The call's return value and the two tables after it.  ret is <<>> for
\* (None, None, None), else <<[stop, rule, max]>>; the returned profit
\* fraction new_max / entry is a float no caller reads and is left out.
update_trailing_stop(pos, live, flag, maxTab, stopTab) ==
    IF Unusable(pos)
    THEN [ret |-> None, max |-> maxTab, stop |-> stopTab]
    ELSE LET key == Key(pos)
             entry == pos.entry[1]
             size == pos.size
             current_profit == CurrentProfit(entry, size, live)
             prev_max == GetOrZero(maxTab, key)
             new_max == NewMax(prev_max, current_profit)
             rule == SelectRule(flag, new_max)
             new_trailing == IF rule = "lock_50"
                             THEN LockHalfStop(entry, size, new_max)
                             ELSE FixedStop(entry, size)
         IN  [ret |-> Some([stop |-> new_trailing, rule |-> rule, max |-> new_max]),
              max |-> Put(maxTab, key, new_max),
              stop |-> Put(stopTab, key, new_trailing)]

----------------------------------------------------------------------------
(* book_profit: the breach test and the close request *)

\* variant: a price on the stop is a breach
BreachOrEqual(size, live, stop) ==
    \/ size > 0 /\ live <= stop
    \/ size < 0 /\ live >= stop

\* size > 0 and live_price < trailing_stop / size < 0 and live_price > trailing_stop
Breach(size, live, stop) ==
    \/ size > 0 /\ live < stop
    \/ size < 0 /\ live > stop

\* "sell" for a long, "buy" for a short
CloseSide(size) == IF size > 0 THEN "sell" ELSE "buy"

\* size for the sell of a long, abs(size) for the buy of a short
CloseAmount(size) == IF size > 0 THEN size ELSE Abs(size)

IocParams == [time_in_force |-> "ioc"]

\* the arguments book_profit passes to place_market_order, or <<>>; the
\* lock_50 branch and the fixed_stop branch of the source are the same text
CloseRequest(rule, size, live, stop) ==
    IF Breach(size, live, stop)
    THEN Some([symbol |-> SYMBOL, side |-> CloseSide(size),
               amount |-> CloseAmount(size), params |-> Some(IocParams),
               force |-> TRUE])
    ELSE None

----------------------------------------------------------------------------
(* The execution venue as the client sees it (exchange.py) *)

\* DeltaExchangeClient.fetch_positions: it raises, or returns the venue's
\* position in SYMBOL (if any) after other records
PositionQuery ==
    {[ok |-> FALSE, list |-> <<>>]} \cup
    {[ok |-> TRUE, list |-> extra \o venue_position] : extra \in ExtraRecords}

\* exchange.fetch_open_orders(symbol): it raises, or returns the open orders
OpenOrdersQuery ==
    {[ok |-> FALSE, sides |-> {}], [ok |-> TRUE, sides |-> venue_open_orders]}

\* symbol in pos_symbol / pos_symbol.startswith(symbol): over the product
\* symbols of the model, SYMBOL is a substring and a prefix of itself only
SymbolIn(symbol, pos_symbol) == symbol = pos_symbol
StartsWith(pos_symbol, symbol) == pos_symbol = symbol

\* the entry price of a position an order opens, by the order's side
EntryFor(side) == IF side = "buy" THEN U(100) ELSE U(450)

ReduceOnly(params) == "reduce_only" \in DOMAIN params /\ params.reduce_only

\* the venue's position after it has filled a market order
Filled(position, side, amount, params) ==
    LET signed == IF side = "buy" THEN amount ELSE 0 - amount
    IN  IF position = None
        THEN IF ReduceOnly(params) THEN None
             ELSE Some([symbol |-> SYMBOL, entry |-> Some(EntryFor(side)), size |-> signed])
        ELSE LET pos == position[1]
                 size == pos.size + signed
                 closing == (pos.size > 0) # (signed > 0)
             IN  IF ReduceOnly(params) /\ ~closing THEN position
                 ELSE IF size = 0 \/ (ReduceOnly(params) /\ (size > 0) # (pos.size > 0))
                      THEN None
                 ELSE IF (size > 0) = (pos.size > 0)
                      THEN Some([pos EXCEPT !.size = size])
                      ELSE Some([symbol |-> SYMBOL, entry |-> Some(EntryFor(side)),
                                 size |-> size])

----------------------------------------------------------------------------
(* OrderExecutor: TradeManager.place_market_order *)

\* params or {}
OrEmpty(params) == IF params = None THEN <<>> ELSE params[1]

\* variant: the forced branch leaves the params as they came
ForcedParamsAsGiven(params) == Some(OrEmpty(params))

\* params = params or {}; params.setdefault("reduce_only", True)
ForcedParams(params) ==
    LET p == OrEmpty(params)
    IN  IF "reduce_only" \in DOMAIN p THEN Some(p)
        ELSE Some([k \in DOMAIN p \cup {"reduce_only"} |->
                      IF k = "reduce_only" THEN TRUE ELSE p[k]])

\* the loop over fetch_positions() of the first safety check; a query that
\* raises is logged and the check is passed over
PositionBlocks(symbol, side, pq) ==
    /\ pq.ok
    /\ \E i \in 1..Len(pq.list) :
          /\ SymbolIn(symbol, pq.list[i].symbol)
          /\ \/ side = "buy" /\ pq.list[i].size > 0
             \/ side = "sell" /\ pq.list[i].size < 0

\* the loop over fetch_open_orders(symbol) of the second safety check
PendingBlocks(side, oq) == oq.ok /\ side \in oq.sides

\* stale local orders cleanup: entries with current_time - timestamp > 60000 go
IsStale(o, current_time) == current_time - o.timestamp > STALE_MS

\* variant: the cleanup removes nothing
PruneStaleKept(cache, current_time) == cache

\* stale_ids = [...]; del self.order_manager.orders[oid]
PruneStale(cache, current_time) ==
    SelectSeq(cache, LAMBDA o : ~IsStale(o, current_time))

\* local cache pending check
CacheBlocks(side, cache) ==
    \E i \in 1..Len(cache) :
        cache[i].side = side /\ cache[i].status \in {"open", "pending"}

\* OrderManager._store_order: rpush, then ltrim to the last 1000
StoreOrder(list, order_info) ==
    LET pushed == Append(list, order_info)
    IN  IF Len(pushed) > ARCHIVE_KEEP
        THEN SubSeq(pushed, Len(pushed) - ARCHIVE_KEEP + 1, Len(pushed))
        ELSE pushed

\* _store_order with its try/except: when Redis is down rpush raises, the
\* error is logged and nothing is stored
TryStoreOrder(up, list, order_info) ==
    IF up THEN StoreOrder(list, order_info) ELSE list

\* variant: the order is not put into the cache
CacheOrderSkipped(cache, order_info) == cache

\* self.order_manager.orders[order_id] = order_info, for a new order id
CacheOrder(cache, order_info) == Append(cache, order_info)

\* variant: the side of the position found is not looked at
OpenVerifiedAnySide(symbol, side, positions_after) ==
    \E i \in 1..Len(positions_after) :
        /\ StartsWith(positions_after[i].symbol, symbol)
        /\ positions_after[i].size # 0

\* variant: a failed verification submits the order once more
PlaceVerifyRetrying ==
    /\ tm_call # None
    /\ \E pq \in PositionQuery :
          LET call == tm_call[1]
              verified == IF call.force THEN ~(\E i \in 1..Len(pq.list) :
                                                  pq.list[i].symbol = call.symbol
                                                  /\ pq.list[i].size # 0)
                          ELSE \E i \in 1..Len(pq.list) :
                                  /\ pq.list[i].symbol = call.symbol
                                  /\ \/ call.side = "buy" /\ pq.list[i].size > 0
                                     \/ call.side = "sell" /\ pq.list[i].size < 0
          IN  /\ tm_ret' = IF ~pq.ok THEN "raised"
                           ELSE IF verified THEN "order" ELSE "none"
              /\ sent' = IF pq.ok /\ ~verified THEN Append(sent, sent[Len(sent)])
                         ELSE sent
    /\ tm_call' = None
    /\ UNCHANGED <<orders, archive, tm_last>>

\* variant: only a long counts as still open
StillOpenLongOnly(symbol, positions_after) ==
    \E i \in 1..Len(positions_after) :
        /\ StartsWith(positions_after[i].symbol, symbol)
        /\ positions_after[i].size > 0

\* the verification of a forced call: a position of the symbol is still open
StillOpen(symbol, positions_after) ==
    \E i \in 1..Len(positions_after) :
        /\ StartsWith(positions_after[i].symbol, symbol)
        /\ positions_after[i].size # 0

\* the verification of a non-forced call: a position on the intended side
OpenVerified(symbol, side, positions_after) ==
    \E i \in 1..Len(positions_after) :
        /\ StartsWith(positions_after[i].symbol, symbol)
        /\ \/ side = "buy" /\ positions_after[i].size > 0
           \/ side = "sell" /\ positions_after[i].size < 0

\* place_market_order up to its time.sleep(1): the safety checks, the
\* reduce-only flag, exchange.create_order, the cache and the archive.
\* tables is the caller's view of the trailing state when it calls.
PlaceStart(symbol, side, amount, params, force, tables, sent_before) ==
    \E pq \in PositionQuery, oq \in OpenOrdersQuery :
        LET blocked1 == ~force /\ PositionBlocks(symbol, side, pq)
            blocked2 == ~force /\ ~blocked1 /\ PendingBlocks(side, oq)
            pruned == IF force \/ blocked1 \/ blocked2 THEN orders
                      ELSE PruneStale(orders, now_ms)
            blocked3 == ~force /\ ~blocked1 /\ ~blocked2 /\ CacheBlocks(side, pruned)
            sent_params == IF force THEN ForcedParams(params) ELSE params
            request == [symbol |-> symbol, type |-> "market", side |-> side,
                        amount |-> amount, params |-> OrEmpty(sent_params)]
        IN  /\ tm_last' = Some([symbol |-> symbol, side |-> side, amount |-> amount,
                                params |-> params, force |-> force])
            /\ IF blocked1 \/ blocked2 \/ blocked3
               THEN /\ orders' = pruned
                    /\ tm_ret' = "none"
                    /\ sent' = sent_before
                    /\ UNCHANGED <<archive, tm_call, venue_vars>>
               ELSE /\ sent' = Append(sent_before, request)
                    /\ \/ \* exchange.create_order raises
                          /\ orders' = pruned
                          /\ tm_ret' = "raised"
                          /\ UNCHANGED <<archive, tm_call, venue_vars>>
                       \/ \* the venue accepts the order and fills it or not
                          /\ venue_order_seq < MaxOrders
                          /\ \E fill \in BOOLEAN :
                               LET order_info ==
                                     [id |-> venue_order_seq + 1, symbol |-> symbol,
                                      side |-> side, amount |-> amount,
                                      params |-> OrEmpty(sent_params),
                                      status |-> IF fill THEN "closed" ELSE "open",
                                      timestamp |-> now_ms]
                               IN  /\ venue_position' =
                                         IF fill
                                         THEN Filled(venue_position, side, amount,
                                                     OrEmpty(sent_params))
                                         ELSE venue_position
                                   /\ venue_order_seq' = venue_order_seq + 1
                                   /\ orders' = CacheOrder(pruned, order_info)
                                   /\ archive' = TryStoreOrder(redis_up, archive, order_info)
                                   /\ tm_call' = Some([symbol |-> symbol, side |-> side,
                                                       amount |-> amount, force |-> force,
                                                       order_info |-> order_info,
                                                       tables |-> tables])
                                   /\ tm_ret' = "pending"
                                   /\ UNCHANGED <<venue_open_orders, redis_up>>

\* place_market_order after its time.sleep(1): the verification poll and
\* the result
PlaceVerify ==
    /\ tm_call # None
    /\ \E pq \in PositionQuery :
          LET call == tm_call[1]
          IN  tm_ret' =
                IF ~pq.ok THEN "raised"
                ELSE IF call.force
                     THEN IF StillOpen(call.symbol, pq.list) THEN "none" ELSE "order"
                     ELSE IF OpenVerified(call.symbol, call.side, pq.list)
                          THEN "order" ELSE "none"
    /\ tm_call' = None
    /\ UNCHANGED <<orders, archive, sent, tm_last>>

----------------------------------------------------------------------------
(* PositionReconciler: ProfitTrailing.fetch_open_positions *)

\* the records with a non-zero size whose symbol contains config.SYMBOL;
\* a query that raises gives the empty list
fetch_open_positions(pq) ==
    IF ~pq.ok THEN <<>>
    ELSE SelectSeq(pq.list, LAMBDA pos : pos.size # 0 /\ SymbolIn(SYMBOL, pos.symbol))

----------------------------------------------------------------------------
(* TrailingSupervisor: ProfitTrailing.track *)

\* variant: the stops survive an empty poll
ClearedStopsKept(tab) == tab

\* self.position_trailing_stop.clear() / self.position_max_profit.clear()
ClearedStops(tab) == EmptyTable
ClearedMax(tab) == EmptyTable

\* The history variable reopen.  The venue's position goes away: a recorded
\* position is now a closed one.
ReopenAfterVenue(old, new, state) ==
    IF old # None /\ new = None /\ Key(old[1]) \in DOMAIN position_max_profit
    THEN "closed" ELSE state
\* A poll finds no open position.
ReopenAfterEmptyPoll(state) == IF state = "closed" THEN "cleared" ELSE state
\* The first engine call of a cycle runs for the position pos.
ReopenAfterUpdate(pos, state) ==
    IF venue_position # Some(pos) THEN state
    ELSE IF state = "closed" THEN "first_unseen"
    ELSE IF state = "cleared" THEN "first_seen"
    ELSE state
\* The cycle ends.
ReopenAfterCycle(state) ==
    IF state \in {"first_unseen", "first_seen"} THEN "no" ELSE state

\* The history variable verified_closed.  place_market_order has returned
\* ret for the forced close of pos: it returns the order when its poll has
\* shown no open position of the symbol.
ClosedAfterVerify(pos, ret, closed) ==
    IF ret = "order" /\ venue_position = None THEN Some(Key(pos)) ELSE closed
\* The venue's position is now new: a position opened later is another one.
ClosedAfterVenue(new, closed) == IF new # None THEN None ELSE closed

\* The history variable last_eval.  The venue's position changes: what was
\* computed for the position before is forgotten.
EvalAfterVenue(old, new, eval) == IF new = old THEN eval ELSE None
\* The for loop's engine call has returned ret for the position pos, with
\* the flag at flag.
EvalAfterUpdate(pos, ret, flag, eval) ==
    IF ret # None /\ venue_position = Some(pos)
    THEN Some([stop |-> ret[1].stop, flag |-> flag])
    ELSE eval

\* the state after construction, but for the archive, which is a list of the
\* Redis server and outlives the program
InitButArchive ==
    /\ current_price = None
    /\ take_profit_detected = FALSE
    /\ last_signal = None
    /\ signal_call = None
    /\ venue_position = None
    /\ venue_open_orders = {}
    /\ last_update_time = 0
    /\ clock = 0
    /\ stop_event = FALSE
    /\ ws_state = "open"
    /\ mon_pc = "sleeping"
    /\ mon_wake = MONITOR_SLEEP
    /\ reconnect_times = <<>>
    /\ handled = [last |-> None, tick |-> None]
    /\ ws_lock = None
    /\ handler = [h \in Handlers |-> IdleHandler(0)]
    /\ written = [price_by |-> None, time_by |-> None]
    /\ connections = <<"open">>
    /\ ws_app = 1
    /\ new_threads = 0
    /\ stop_pc = "idle"
    /\ venue_order_seq = 0
    /\ redis_up = TRUE
    /\ now_ms = 0
    /\ pc = "wait"
    /\ wait_time = 0
    /\ elapsed = POSITION_FETCH_INTERVAL
    /\ cached_positions = <<>>
    /\ last_had_positions = TRUE
    /\ position_max_profit = EmptyTable
    /\ position_trailing_stop = EmptyTable
    /\ live_price = None
    /\ engine_ret = None
    /\ close_failed = "no"
    /\ orders = <<>>
    /\ tm_call = None
    /\ sent = <<>>
    /\ tm_ret = "idle"
    /\ tm_last = None
    /\ reopen = "no"
    /\ last_eval = None
    /\ verified_closed = None

\* the program starts with an empty archive
Init ==
    /\ InitButArchive
    /\ archive = <<>>

\* variant: the budget itself still allows one more sleep
KeepWaitingInclusive(price, waited) == price = None /\ waited <= WAIT_BUDGET

\* while self.ws.current_price is None and wait_time < 30
KeepWaiting(price, waited) == price = None /\ waited < WAIT_BUDGET

\* the wait for the first price: every 2 s up to 30 s, then give up.
\* wait_time is a local that is not read after the wait; it is set back to
\* 0 when the wait ends.
WaitForPrice ==
    /\ pc = "wait"
    /\ IF KeepWaiting(current_price, wait_time)
       THEN /\ wait_time' = wait_time + WAIT_STEP
            /\ pc' = pc
       ELSE /\ wait_time' = 0
            /\ pc' = IF current_price = None THEN "terminated" ELSE "top"
    /\ UNCHANGED <<feed_vars, signal_vars, venue_vars, now_ms, elapsed,
                   cached_positions, last_had_positions, engine_vars, live_price,
                   engine_ret, close_failed, tm_vars, reopen, last_eval, verified_closed>>

\* variant: the poll waits until more than the interval has passed
PollDueStrict(since_fetch) == since_fetch > POSITION_FETCH_INTERVAL

\* now - self.last_position_fetch_time >= self.position_fetch_interval
PollDue(since_fetch) == since_fetch >= POSITION_FETCH_INTERVAL

\* The venue holds at most one position in SYMBOL, so cached_positions has
\* at most one element and the for loop of a cycle has at most one pass.
ThePos == cached_positions[1]

\* the top of a cycle: the position poll when it is due, the price read, the
\* resume flag, and the pass of the for loop up to its log line (the engine
\* call of line 232).  An absent engine result makes the log line's number
\* formatting raise, which nothing in track catches.
CycleTop ==
    /\ pc = "top"
    /\ \E pq \in PositionQuery :
          LET due == PollDue(elapsed)
              cached == IF due THEN fetch_open_positions(pq) ELSE cached_positions
          IN  /\ cached_positions' = cached
              /\ elapsed' = IF due THEN 0 ELSE elapsed
              /\ IF due /\ cached = <<>>
                 THEN /\ last_had_positions' = FALSE
                      /\ position_trailing_stop' = ClearedStops(position_trailing_stop)
                      /\ position_max_profit' = ClearedMax(position_max_profit)
                      /\ reopen' = ReopenAfterEmptyPoll(reopen)
                      /\ last_eval' = last_eval
                      /\ pc' = "sleep"
                      /\ UNCHANGED <<live_price, engine_ret>>
                 ELSE /\ live_price' = current_price
                      /\ IF current_price = None
                         THEN /\ pc' = "sleep"
                              /\ UNCHANGED <<last_had_positions, engine_vars, engine_ret,
                                             reopen, last_eval>>
                         ELSE /\ last_had_positions' =
                                    IF cached # <<>> THEN TRUE ELSE last_had_positions
                              /\ IF cached = <<>> \/ cached[1].size = 0
                                 THEN /\ pc' = "sleep"
                                      /\ UNCHANGED <<engine_vars, engine_ret, reopen,
                                                     last_eval>>
                                 ELSE LET r == update_trailing_stop(
                                                  cached[1], current_price[1],
                                                  take_profit_detected,
                                                  position_max_profit,
                                                  position_trailing_stop)
                                      IN  /\ position_max_profit' = r.max
                                          /\ position_trailing_stop' = r.stop
                                          /\ engine_ret' = r.ret
                                          /\ reopen' = IF r.ret = None THEN reopen
                                                       ELSE ReopenAfterUpdate(cached[1], reopen)
                                          /\ last_eval' =
                                                EvalAfterUpdate(cached[1], r.ret,
                                                                take_profit_detected,
                                                                last_eval)
                                          /\ pc' = IF r.ret = None THEN "crashed"
                                                   ELSE "book"
    /\ UNCHANGED <<feed_vars, signal_vars, venue_vars, now_ms, wait_time,
                   close_failed, tm_vars, verified_closed>>

\* variant: an exception of place_market_order ends the supervisor
AfterCloseFatal(ret) == IF ret = "raised" THEN "crashed" ELSE "sleep"

\* where the cycle goes after the close call: book_profit catches what
\* place_market_order raises and returns False (track catches once more),
\* so the cycle ends with its sleep however the call went
AfterClose(ret) == "sleep"

\* what book_profit returns, by how its place_market_order call went
\* ("idle": it made none): True after the call returned, whether it returned
\* the order or None (lines 130-135), and False when the call raised
\* (136-138), when the stop was not breached (173) and when the engine
\* gave no stop (125)
book_profit_returns(ret) == ret \in {"order", "none"}

\* book_profit up to the sleep inside place_market_order: the second engine
\* call, the breach test, and the forced close when the stop is breached
Book ==
    /\ pc = "book"
    /\ LET pos == ThePos
           r == update_trailing_stop(pos, live_price[1], take_profit_detected,
                                     position_max_profit, position_trailing_stop)
           req == IF r.ret = None THEN None
                  ELSE CloseRequest(r.ret[1].rule, pos.size, live_price[1], r.ret[1].stop)
       IN  /\ position_max_profit' = r.max
           /\ position_trailing_stop' = r.stop
           /\ engine_ret' = r.ret
           /\ IF req = None
              THEN /\ pc' = "sleep"
                   /\ UNCHANGED <<venue_vars, tm_vars, close_failed>>
              ELSE /\ PlaceStart(req[1].symbol, req[1].side, req[1].amount,
                                 req[1].params, req[1].force,
                                 [max |-> r.max, stop |-> r.stop], sent)
                   /\ IF tm_ret' = "pending"
                      THEN /\ pc' = "verify"
                           /\ close_failed' =
                                 IF venue_position' = venue_position
                                 THEN close_failed ELSE "no"
                      ELSE /\ pc' = AfterClose(tm_ret')
                           /\ close_failed' =
                                 IF venue_position = Some(pos)
                                 THEN "this_cycle" ELSE close_failed
    /\ reopen' = ReopenAfterVenue(venue_position, venue_position', reopen)
    /\ last_eval' = EvalAfterVenue(venue_position, venue_position', last_eval)
    /\ verified_closed' = ClosedAfterVenue(venue_position', verified_closed)
    /\ UNCHANGED <<feed_vars, signal_vars, now_ms, wait_time, elapsed,
                   cached_positions, last_had_positions, live_price>>

\* the rest of book_profit: place_market_order verifies and returns or
\* raises; book_profit returns True unless the call raised
Verify ==
    /\ pc = "verify"
    /\ PlaceVerify
    /\ pc' = AfterClose(tm_ret')
    /\ close_failed' =
          IF tm_ret' \in {"none", "raised"} /\ venue_position = Some(ThePos)
          THEN "this_cycle" ELSE close_failed
    /\ verified_closed' = ClosedAfterVerify(ThePos, tm_ret', verified_closed)
    /\ UNCHANGED <<feed_vars, signal_vars, venue_vars, now_ms, wait_time,
                   elapsed, cached_positions, last_had_positions, engine_vars,
                   live_price, engine_ret, reopen, last_eval>>

\* time.sleep(self.check_interval), and whatever else the cycle took
Sleep ==
    /\ pc = "sleep"
    /\ \E d \in CycleSeconds :
          elapsed' = Min(elapsed + d, POSITION_FETCH_INTERVAL)
    /\ pc' = "top"
    /\ live_price' = None
    /\ engine_ret' = None
    /\ sent' = <<>>
    /\ tm_ret' = "idle"
    /\ tm_last' = None
    /\ close_failed' = IF close_failed = "this_cycle" THEN "earlier" ELSE close_failed
    /\ reopen' = ReopenAfterCycle(reopen)
    /\ last_eval' = last_eval
    /\ verified_closed' = verified_closed
    /\ UNCHANGED <<feed_vars, signal_vars, venue_vars, now_ms, wait_time,
                   cached_positions, last_had_positions, engine_vars, orders,
                   archive, tm_call>>

----------------------------------------------------------------------------
(* The other tasks and the venue *)

\* An inbound message is text: kind is "object" when json.loads gives a
\* dict and "text" when it raises; keys are the dict's keys; p is the value
\* under "p", a string that float() parses (tag "numstr", its value in
\* tenths), a string that it does not ("word") or null.
NumStr(p) == [tag |-> "numstr", val |-> p]
WordVal == [tag |-> "word", val |-> 0]
NullVal == [tag |-> "null", val |-> 0]
TradeKeys == {"p", "q", "m"}
TradeMessage(p) == [kind |-> "object", keys |-> TradeKeys, p |-> NumStr(p)]
ValidMessages == {TradeMessage(p) : p \in Prices}
MalformedMessages ==
    {[kind |-> "text", keys |-> {}, p |-> NullVal]} \cup
    {[kind |-> "object", keys |-> TradeKeys \ {k}, p |-> NumStr(500)] : k \in {"q", "m"}} \cup
    {[kind |-> "object", keys |-> {"q", "m"}, p |-> NullVal]} \cup
    {[kind |-> "object", keys |-> TradeKeys, p |-> v] : v \in {WordVal, NullVal}}

\* float(data["p"]): the number, or absent when float() raises
ParseFloat(v) == IF v.tag = "numstr" THEN Some(v.val) ELSE None

\* variant: a dropped message still refreshes the time of the last update
DroppedTimeRefreshed(last, now) == now

\* what a message that is dropped leaves in last_update_time
DroppedTime(last, now) == last

\* BinanceWebsocket._on_message: the stored price and time after the
\* handler, and how it ended: "stored", "dropped" (the early return) or
\* "logged" (an exception caught and logged by the handler's except)
on_message(msg, price, last, now) ==
    IF msg.kind # "object"
    THEN [price |-> price, time |-> DroppedTime(last, now), outcome |-> "logged"]
    ELSE IF ~(TradeKeys \subseteq msg.keys)
    THEN [price |-> price, time |-> DroppedTime(last, now), outcome |-> "dropped"]
    ELSE IF ParseFloat(msg.p) = None
    THEN [price |-> price, time |-> DroppedTime(last, now), outcome |-> "logged"]
    ELSE [price |-> ParseFloat(msg.p), time |-> now, outcome |-> "stored"]

\* the history of handled messages after msg
Handled(msg, h) ==
    [last |-> Some(msg),
     tick |-> IF msg \in ValidMessages THEN Some(msg.p.val) ELSE h.tick]

\* BinanceWebsocket._on_message with a valid trade message, which only an
\* open connection delivers: the price and the time of the update are
\* written together.  The supervisor reads current_price at the top of a
\* cycle only, so a tick is taken when the supervisor is about to read, or
\* when it has given up.
Tick ==
    /\ pc \in {"wait", "top", "terminated"}
    /\ ws_state = "open"
    /\ \E msg \in ValidMessages :
          LET r == on_message(msg, current_price, last_update_time, clock)
          IN  /\ current_price' = r.price
              /\ last_update_time' = r.time
              /\ handled' = Handled(msg, handled)
    /\ <<current_price, last_update_time>>' # <<current_price, last_update_time>>
    /\ UNCHANGED <<watch_vars, lock_vars, conn_vars, rest_vars>>

\* BinanceWebsocket._on_message with a message that is not a trade message
BadMessage ==
    /\ ws_state = "open"
    /\ \E msg \in MalformedMessages :
          LET r == on_message(msg, current_price, last_update_time, clock)
          IN  /\ current_price' = r.price
              /\ last_update_time' = r.time
              /\ handled' = Handled(msg, handled)
    /\ UNCHANGED <<watch_vars, lock_vars, conn_vars, rest_vars>>

\* SignalProcessor.process_signal: the write of the take-profit flag
SetTakeProfit ==
    /\ take_profit_detected' = ~take_profit_detected
    /\ UNCHANGED <<feed_vars, last_signal, signal_call, venue_vars, now_ms, loop_vars,
                   engine_vars,
                   close_failed, tm_vars, reopen, last_eval, verified_closed>>

\* a position is opened at the venue by something else than the supervisor
VenueOpen ==
    /\ venue_position = None
    /\ \E pos \in VenuePositionChoices : venue_position' = Some(pos)
    /\ close_failed' = "no"
    /\ last_eval' = EvalAfterVenue(venue_position, venue_position', last_eval)
    /\ verified_closed' = ClosedAfterVenue(venue_position', verified_closed)
    /\ UNCHANGED <<feed_vars, signal_vars, venue_open_orders, venue_order_seq, redis_up,
                   now_ms, loop_vars, engine_vars, tm_vars, reopen>>

\* the position is closed at the venue by something else than the supervisor
VenueClose ==
    /\ venue_position # None
    /\ venue_position' = None
    /\ close_failed' = "no"
    /\ reopen' = ReopenAfterVenue(venue_position, venue_position', reopen)
    /\ last_eval' = EvalAfterVenue(venue_position, venue_position', last_eval)
    /\ verified_closed' = ClosedAfterVenue(venue_position', verified_closed)
    /\ UNCHANGED <<feed_vars, signal_vars, venue_open_orders, venue_order_seq, redis_up,
                   now_ms, loop_vars, engine_vars, tm_vars>>

Next ==
    \/ WaitForPrice
    \/ CycleTop
    \/ Book
    \/ Verify
    \/ Sleep
    \/ Tick
    \/ SetTakeProfit
    \/ VenueOpen
    \/ VenueClose

Spec == Init /\ [][Next]_vars

----------------------------------------------------------------------------
(* place_market_order called directly, as trade_manager.py's own entry point
   and SignalProcessor.process_signal call it *)

\* the amount and the params of a direct call: params is
\* {"time_in_force": "ioc"} at every call site
Amounts == {2}
CallParams == {Some(IocParams)}

\* a call of place_market_order up to its time.sleep(1)
ExternalCall ==
    /\ tm_ret = "idle"
    /\ \E side \in Sides, amount \in Amounts, params \in CallParams, force \in BOOLEAN :
          PlaceStart(SYMBOL, side, amount, params, force,
                     [max |-> position_max_profit, stop |-> position_trailing_stop],
                     <<>>)
    /\ reopen' = ReopenAfterVenue(venue_position, venue_position', reopen)
    /\ last_eval' = EvalAfterVenue(venue_position, venue_position', last_eval)
    /\ verified_closed' = ClosedAfterVenue(venue_position', verified_closed)
    /\ UNCHANGED <<feed_vars, signal_vars, now_ms, loop_vars, engine_vars,
                   close_failed>>

\* the call's verification and result
ExternalVerify ==
    /\ PlaceVerify
    /\ UNCHANGED <<feed_vars, signal_vars, venue_vars, now_ms, loop_vars,
                   engine_vars, close_failed, reopen, last_eval, verified_closed>>

\* the caller takes the result
ExternalDone ==
    /\ tm_ret \in {"none", "order", "raised"}
    /\ tm_ret' = "idle"
    /\ tm_last' = None
    /\ sent' = <<>>
    /\ UNCHANGED <<feed_vars, signal_vars, venue_vars, now_ms, loop_vars,
                   engine_vars, close_failed, orders, archive, tm_call, reopen, last_eval, verified_closed>>

\* time passes between calls
Elapse ==
    /\ tm_ret = "idle"
    /\ \E t \in TimePoints : t > now_ms /\ now_ms' = t
    /\ UNCHANGED <<feed_vars, signal_vars, venue_vars, loop_vars, engine_vars,
                   close_failed, tm_vars, reopen, last_eval, verified_closed>>

\* the orders the venue reports as open change (limit orders of the signal
\* loop are placed, filled or cancelled), between calls or during a call's
\* sleep; a result the caller has not taken yet does not depend on it
PendingChange ==
    /\ tm_ret \in {"idle", "pending"}
    /\ \E sides \in SUBSET Sides : sides # venue_open_orders /\ venue_open_orders' = sides
    /\ UNCHANGED <<feed_vars, signal_vars, venue_position, venue_order_seq, redis_up,
                   now_ms, loop_vars, engine_vars, close_failed, tm_vars, reopen, last_eval, verified_closed>>

\* the Redis server goes down or comes back, between calls
RedisChange ==
    /\ tm_ret = "idle"
    /\ redis_up' = ~redis_up
    /\ UNCHANGED <<feed_vars, signal_vars, venue_position, venue_open_orders,
                   venue_order_seq, now_ms, loop_vars, engine_vars, close_failed,
                   tm_vars, reopen, last_eval, verified_closed>>

\* the venue's position changes between calls or during a call's sleep
PositionChange ==
    /\ tm_ret \in {"idle", "pending"}
    /\ VenueOpen \/ VenueClose

NextTM ==
    \/ ExternalCall
    \/ ExternalVerify
    \/ ExternalDone
    \/ Elapse
    \/ PendingChange
    \/ PositionChange
    \/ RedisChange

SpecTM == Init /\ [][NextTM]_vars

----------------------------------------------------------------------------
(* OrderManager._store_order, call after call.  Records are told apart by
   their id: the k-th record appended to the archive has the id k. *)

\* how the two Redis commands of a call go: both succeed ("stored"), rpush
\* succeeds and ltrim raises ("untrimmed"), or rpush raises ("refused");
\* the except clause logs what is raised
RedisOutcomes(up) == IF up THEN {"stored", "untrimmed"} ELSE {"refused"}

\* the archive after a call of _store_order
store_order(list, order_info, outcome) ==
    IF outcome = "stored" THEN StoreOrder(list, order_info)
    ELSE IF outcome = "untrimmed" THEN Append(list, order_info)
    ELSE list

\* the id of the record appended last
LastArchived(list) == IF list = <<>> THEN 0 ELSE list[Len(list)].id

\* the record with the id k
ArchivedRecord(k) ==
    [id |-> k, symbol |-> SYMBOL, side |-> "buy", amount |-> 2, params |-> IocParams,
     status |-> "open", timestamp |-> 0]

\* the program starts with the archive earlier runs have left: the latest n
\* records, n from 0 to 1000
InitArchive ==
    /\ InitButArchive
    /\ \E n \in 0..ARCHIVE_KEEP : archive = [k \in 1..n |-> ArchivedRecord(k)]

\* one call of _store_order with the record of a new order; a command that
\* raises has found the server gone
StoreOrderCall ==
    /\ LastArchived(archive) < MaxArchived
    /\ LET order_info == ArchivedRecord(LastArchived(archive) + 1)
       IN  \E outcome \in RedisOutcomes(redis_up) :
              /\ archive' = store_order(archive, order_info, outcome)
              /\ redis_up' = (outcome = "stored")
    /\ UNCHANGED <<feed_vars, signal_vars, venue_position, venue_open_orders,
                   venue_order_seq, now_ms, loop_vars, engine_vars, close_failed,
                   orders, tm_call, sent, tm_ret, tm_last, reopen, last_eval, verified_closed>>

NextArchive ==
    \/ StoreOrderCall
    \/ RedisChange

SpecArchive == InitArchive /\ [][NextArchive]_vars

----------------------------------------------------------------------------
(* SignalListener: SignalProcessor.process_signals_loop and the flag write
   of process_signal.  A text is a sequence of one-character strings. *)

TP_TEXT == <<"t", "p">>
TAKE_PROFIT_TEXT == <<"t", "a", "k", "e", " ", "p", "r", "o", "f", "i", "t">>
BUY_TEXT == <<"b", "u", "y">>

\* the texts fetch_signal can deliver: "TP", " tp", "take profit", "Buy",
\* "buy " and the empty text
SignalTexts ==
    {<<"T", "P">>, <<" ">> \o TP_TEXT, TAKE_PROFIT_TEXT, <<"B", "u", "y">>,
     BUY_TEXT \o <<" ">>, <<>>}

\* str.lower(), over the letters of the texts
LowerChar(c) == IF c = "T" THEN "t" ELSE IF c = "P" THEN "p" ELSE IF c = "B" THEN "b" ELSE c
Lower(text) == [i \in DOMAIN text |-> LowerChar(text[i])]

\* str.strip()
RECURSIVE LStrip(_)
LStrip(text) ==
    IF text # <<>> /\ Head(text) = " " THEN LStrip(Tail(text)) ELSE text
RECURSIVE RStrip(_)
RStrip(text) ==
    IF text # <<>> /\ text[Len(text)] = " "
    THEN RStrip(SubSeq(text, 1, Len(text) - 1)) ELSE text
Strip(text) == RStrip(LStrip(text))

\* sub in text
Contains(text, sub) ==
    \E i \in 1..(Len(text) - Len(sub) + 1) : SubSeq(text, i, i + Len(sub) - 1) = sub

\* variant: only the phrase counts
IsTakeProfitPhraseOnly(signal_text) == Contains(signal_text, TAKE_PROFIT_TEXT)

\* "take profit" in signal_text or "tp" in signal_text
IsTakeProfit(signal_text) ==
    Contains(signal_text, TAKE_PROFIT_TEXT) \/ Contains(signal_text, TP_TEXT)

\* SignalProcessor.signals_are_different, old being the stripped lower-case
\* text of the last processed signal, or absent
signals_are_different(new_signal, old) ==
    LET new_text == Lower(Strip(new_signal))
        old_text == IF old = None THEN <<>> ELSE old[1]
    IN  new_text # <<>> /\ new_text # old_text

\* how a call of process_signal ends: it returns (the order with its
\* bracket, or None: no price, an open position, incomplete data, no side, a
\* venue error it catches), or it raises (float(raw_price) of a price that is
\* not a number, a zone that is not a dict)
SignalOutcomes == {"returned", "raised"}

\* variant: a signal whose processing raised is recorded all the same
LastSignalAfterAlways(outcome, text, old) == Some(text)

\* self.last_signal = signal_data, the statement after the call: it is not
\* reached when the call raises
LastSignalAfter(outcome, text, old) == IF outcome = "raised" THEN old ELSE Some(text)

\* the loop has no try: an exception of process_signal ends its thread
ListenerRunning ==
    IF signal_call = None THEN TRUE ELSE signal_call[1].outcome # "raised"

\* one pass of process_signals_loop that finds a new signal: process_signal
\* writes the flag from the text in lower case and goes on to its orders;
\* when it returns, the signal becomes the last one.  (last_signal is read
\* through strip().lower() only.)
ProcessSignal ==
    /\ ListenerRunning
    /\ \E text \in SignalTexts, outcome \in SignalOutcomes :
          /\ signals_are_different(text, last_signal)
          /\ take_profit_detected' = IsTakeProfit(Lower(text))
          /\ signal_call' = Some([text |-> Lower(Strip(text)), outcome |-> outcome])
          /\ last_signal' = LastSignalAfter(outcome, Lower(Strip(text)), last_signal)
    /\ UNCHANGED <<feed_vars, venue_vars, now_ms, loop_vars, engine_vars,
                   close_failed, tm_vars, reopen, last_eval, verified_closed>>

\* the signal loop beside the supervisor and the feed; positions are opened
\* at the venue and closed by the supervisor's orders
NextSignal ==
    \/ ProcessSignal
    \/ WaitForPrice
    \/ CycleTop
    \/ Book
    \/ Verify
    \/ Sleep
    \/ Tick
    \/ VenueOpen

SpecSignal == Init /\ [][NextSignal]_vars

----------------------------------------------------------------------------
(* PriceFeed: BinanceWebsocket and its monitor thread.

   The state of Init is the one main.py reaches by constructing the feed and
   calling start() at once: last_update_time is the time of construction,
   the socket thread runs the first connection and the monitor thread is in
   its first time.sleep(3).  Time is counted in whole seconds; a sleep of 3
   takes 3 seconds and the other statements of the monitor take none. *)

\* variant: a silence of exactly the interval already counts
StaleInclusive(now, last) == now - last >= RECONNECT_INTERVAL

\* time_since_update > self.reconnect_interval
Stale(now, last) == now - last > RECONNECT_INTERVAL

\* variant: the monitor leaves its loop once it has reconnected
MonitorNextOnce(stopped, reconnected) ==
    IF stopped \/ reconnected THEN "exited" ELSE "sleeping"

\* while not self._stop_event.is_set(): the loop goes on unless the stop
\* event is set, whether or not the pass has reconnected
MonitorNext(stopped, reconnected) ==
    IF stopped THEN "exited" ELSE "sleeping"

\* variant: the lock is taken whether or not it is held
LockFreeAlways(l) == TRUE

\* with self._lock: the lock can be taken when nobody holds it
LockFree(l) == l = None

\* one pass of the monitor's loop after its sleep: the staleness test (the
\* read of last_update_time under the lock), the
\* close of the current connection and the start of a new socket thread,
\* then the loop's test of the stop event.  last_update_time is left as it
\* is.
MonitorPoll ==
    /\ mon_pc = "sleeping"
    /\ clock = mon_wake
    /\ LockFree(ws_lock)
    /\ LET stale == Stale(clock, last_update_time)
       IN  /\ reconnect_times' =
                 IF stale THEN Append(reconnect_times, clock) ELSE reconnect_times
           /\ ws_state' = IF stale THEN "open" ELSE ws_state
           /\ mon_pc' = MonitorNext(stop_event, stale)
           /\ mon_wake' = IF mon_pc' = "sleeping" THEN clock + MONITOR_SLEEP ELSE 0
    /\ UNCHANGED <<current_price, last_update_time, handled, clock, stop_event,
                   lock_vars, conn_vars, rest_vars>>

\* a second passes; the monitor wakes when its sleep is over
Advance ==
    /\ clock < MaxClock
    /\ mon_pc = "sleeping" => clock < mon_wake
    /\ clock' = clock + 1
    /\ UNCHANGED <<current_price, last_update_time, handled, stop_event, ws_state, mon_pc, mon_wake, reconnect_times,
                   lock_vars, conn_vars, rest_vars>>

\* BinanceWebsocket._on_error: the connection fails; the handler logs
OnError ==
    /\ ws_state = "open"
    /\ ws_state' = "failed"
    /\ UNCHANGED <<current_price, last_update_time, handled, clock, stop_event, mon_pc, mon_wake, reconnect_times,
                   lock_vars, conn_vars, rest_vars>>

\* BinanceWebsocket._on_close: the connection is closed by the server or
\* after an error; the handler logs and run_forever returns
OnClose ==
    /\ ws_state \in {"open", "failed"}
    /\ ws_state' = "closed"
    /\ UNCHANGED <<current_price, last_update_time, handled, clock, stop_event, mon_pc, mon_wake, reconnect_times,
                   lock_vars, conn_vars, rest_vars>>

\* variant: stop also forgets the price
StopClearing ==
    /\ ~stop_event
    /\ stop_event' = TRUE
    /\ ws_state' = "closed"
    /\ current_price' = None
    /\ UNCHANGED <<last_update_time, handled, clock, mon_pc, mon_wake, reconnect_times,
                   lock_vars, conn_vars, rest_vars>>

\* BinanceWebsocket.stop: the stop event is set and the connection closed
Stop ==
    /\ ~stop_event
    /\ stop_event' = TRUE
    /\ ws_state' = "closed"
    /\ UNCHANGED <<current_price, last_update_time, handled, clock, mon_pc, mon_wake, reconnect_times,
                   lock_vars, conn_vars, rest_vars>>

NextFeed ==
    \/ Tick
    \/ BadMessage
    \/ MonitorPoll
    \/ Advance
    \/ OnError
    \/ OnClose
    \/ Stop

SpecFeed == Init /\ [][NextFeed]_vars

----------------------------------------------------------------------------
(* _on_message statement by statement, in two socket threads, with the
   monitor.  Messages are valid trade messages; the others return before
   the lock is taken. *)

\* the prices of the messages a socket thread receives, one after another
PriceSeq == <<500, 994, 4527, 5500>>
MessagePrice(h, n) ==
    PriceSeq[(((IF h = "old" THEN 0 ELSE 2) + n - 1) % Len(PriceSeq)) + 1]

\* variant: the time is read when the message arrives, before the lock
StampTimeAtReceipt(at, now) == at

\* self.last_update_time = time.time(), read while the lock is held
StampTime(at, now) == now

\* lines 21-25: a message arrives and is parsed; the thread of the new
\* connection exists once the monitor has reconnected
Receive(h) ==
    /\ handler[h].pc = "idle"
    /\ handler[h].n < MaxMessages
    /\ h = "new" => reconnect_times # <<>>
    /\ handler' = [handler EXCEPT ![h] = [pc |-> "parsed", n |-> @.n + 1, at |-> clock]]
    /\ UNCHANGED <<current_price, last_update_time, watch_vars, ws_lock, written, handled,
                   conn_vars, rest_vars>>

\* line 26: with self._lock
Acquire(h) ==
    /\ handler[h].pc = "parsed"
    /\ LockFree(ws_lock)
    /\ ws_lock' = Some(h)
    /\ handler' = [handler EXCEPT ![h].pc = "locked"]
    /\ UNCHANGED <<current_price, last_update_time, watch_vars, written, handled,
                   conn_vars, rest_vars>>

\* line 27: self.current_price = price
WritePrice(h) ==
    /\ handler[h].pc = "locked"
    /\ current_price' = Some(MessagePrice(h, handler[h].n))
    /\ written' = [written EXCEPT !.price_by = Some(<<h, handler[h].n>>)]
    /\ handled' = Handled(TradeMessage(MessagePrice(h, handler[h].n)), handled)
    /\ handler' = [handler EXCEPT ![h].pc = "price_written"]
    /\ UNCHANGED <<last_update_time, watch_vars, ws_lock, conn_vars, rest_vars>>

\* line 28 and the end of the with block: self.last_update_time =
\* time.time(), then the lock is released
WriteTime(h) ==
    /\ handler[h].pc = "price_written"
    /\ last_update_time' = StampTime(handler[h].at, clock)
    /\ written' = [written EXCEPT !.time_by = Some(<<h, handler[h].n>>)]
    /\ ws_lock' = None
    /\ handler' = [handler EXCEPT ![h] = IdleHandler(@.n)]
    /\ UNCHANGED <<current_price, watch_vars, handled, conn_vars, rest_vars>>

NextLock ==
    \/ \E h \in Handlers : Receive(h)
    \/ \E h \in Handlers : Acquire(h)
    \/ \E h \in Handlers : WritePrice(h)
    \/ \E h \in Handlers : WriteTime(h)
    \/ MonitorPoll
    \/ Advance

SpecLock == Init /\ [][NextLock]_vars

----------------------------------------------------------------------------
(* The connections one by one: _start_socket, the monitor's reconnect and
   stop() statement by statement.  Here every WebSocketApp object is
   followed on its own (ws_state, the summary used above, is not).  The
   statements of the program take no time, so that a started thread has set
   ws_app, and the monitor and stop() have finished what they began, before
   a second passes; connecting takes any time.  WebSocketApp.close() ends
   the object's connection, and an object closed while it connects does not
   open later. *)

\* variant: close() has no effect
CloseAppSkipped(apps, ref) == apps

\* if self.ws_app: self.ws_app.close()
CloseApp(apps, ref) ==
    IF ref = 0 THEN apps ELSE [apps EXCEPT ![ref] = "closed"]

\* line 50: self.ws_app = websocket.WebSocketApp(...), in a new socket thread
AssignApp ==
    /\ new_threads > 0
    /\ new_threads' = new_threads - 1
    /\ connections' = Append(connections, "connecting")
    /\ ws_app' = Len(connections) + 1
    /\ UNCHANGED <<current_price, last_update_time, watch_vars, lock_vars, handled,
                   stop_pc, rest_vars>>

\* line 58: run_forever has connected
Connect ==
    /\ \E i \in 1..Len(connections) :
          /\ connections[i] = "connecting"
          /\ connections' = [connections EXCEPT ![i] = "open"]
    /\ UNCHANGED <<current_price, last_update_time, watch_vars, lock_vars, handled,
                   ws_app, new_threads, stop_pc, rest_vars>>

\* _on_message in the socket thread of an open connection
ConnTick ==
    /\ \E i \in 1..Len(connections) : connections[i] = "open"
    /\ \E msg \in ValidMessages :
          LET r == on_message(msg, current_price, last_update_time, clock)
          IN  /\ current_price' = r.price
              /\ last_update_time' = r.time
              /\ handled' = Handled(msg, handled)
    /\ <<current_price, last_update_time>>' # <<current_price, last_update_time>>
    /\ UNCHANGED <<watch_vars, lock_vars, conn_vars, rest_vars>>

\* _on_close: the server ends a connection and run_forever returns
ConnClosed ==
    /\ \E i \in 1..Len(connections) :
          /\ connections[i] = "open"
          /\ connections' = [connections EXCEPT ![i] = "closed"]
    /\ UNCHANGED <<current_price, last_update_time, watch_vars, lock_vars, handled,
                   ws_app, new_threads, stop_pc, rest_vars>>

\* lines 77-80: the monitor's sleep is over and it tests the staleness
MonWake ==
    /\ mon_pc = "sleeping"
    /\ clock = mon_wake
    /\ LockFree(ws_lock)
    /\ mon_pc' = IF Stale(clock, last_update_time) THEN "closing"
                 ELSE MonitorNext(stop_event, FALSE)
    /\ mon_wake' = IF mon_pc' = "sleeping" THEN clock + MONITOR_SLEEP
                   ELSE IF mon_pc' = "closing" THEN mon_wake ELSE 0
    /\ UNCHANGED <<current_price, last_update_time, handled, clock, stop_event,
                   ws_state, reconnect_times, lock_vars, conn_vars, rest_vars>>

\* lines 82-86: the monitor closes the connection ws_app refers to
MonClose ==
    /\ mon_pc = "closing"
    /\ connections' = CloseApp(connections, ws_app)
    /\ mon_pc' = "spawning"
    /\ UNCHANGED <<current_price, last_update_time, handled, clock, stop_event,
                   ws_state, mon_wake, reconnect_times, lock_vars, ws_app,
                   new_threads, stop_pc, rest_vars>>

\* lines 88-89 and the loop's test: the monitor starts a new socket thread
MonSpawn ==
    /\ mon_pc = "spawning"
    /\ new_threads' = new_threads + 1
    /\ reconnect_times' = Append(reconnect_times, clock)
    /\ mon_pc' = MonitorNext(stop_event, TRUE)
    /\ mon_wake' = IF mon_pc' = "sleeping" THEN clock + MONITOR_SLEEP ELSE 0
    /\ UNCHANGED <<current_price, last_update_time, handled, clock, stop_event,
                   ws_state, lock_vars, connections, ws_app, stop_pc, rest_vars>>

\* line 95: self._stop_event.set()
StopSet ==
    /\ stop_pc = "idle"
    /\ stop_event' = TRUE
    /\ stop_pc' = "set"
    /\ UNCHANGED <<current_price, last_update_time, handled, clock, ws_state, mon_pc,
                   mon_wake, reconnect_times, lock_vars, connections, ws_app,
                   new_threads, rest_vars>>

\* lines 96-97: stop() closes the connection ws_app refers to; the joins
\* that follow only wait
StopClose ==
    /\ stop_pc = "set"
    /\ connections' = CloseApp(connections, ws_app)
    /\ stop_pc' = "done"
    /\ UNCHANGED <<current_price, last_update_time, watch_vars, lock_vars, handled,
                   ws_app, new_threads, rest_vars>>

\* a second passes, once the statements under way are done
ConnAdvance ==
    /\ mon_pc \in {"sleeping", "exited"}
    /\ new_threads = 0
    /\ stop_pc # "set"
    /\ Advance

NextConn ==
    \/ AssignApp
    \/ Connect
    \/ ConnTick
    \/ ConnClosed
    \/ MonWake
    \/ MonClose
    \/ MonSpawn
    \/ StopSet
    \/ StopClose
    \/ ConnAdvance
----------------------------------------------------------------------------
(* The keys of a position record.  A record as fetch_positions returns it
   carries its symbol under info.product_symbol or symbol, its entry price
   under info.entry_price or entryPrice and its size under size or
   contracts; a key it does not carry is <<>>.  A key of the tables is the
   triple of the three values an f-string formats, each <<v>>, or <<>> for
   the None it would print as "None". *)

\* Python's `a or b` over strings: b when a is None or empty
OrElseStr(a, b) == IF a = None THEN b ELSE IF a[1] = "" THEN b ELSE a

\* Python's `a or b` over numbers: b when a is None or zero
OrElse(a, b) == IF a = None THEN b ELSE IF a[1] = 0 THEN b ELSE a

\* dict.get(key, default)
GetOr(field, default) == IF field = None THEN Some(default) ELSE field

RawPositions ==
    [info_product_symbol : {None, Some(SYMBOL)},
     symbol : {None, Some(SYMBOL)},
     info_entry_price : {None, Some(U(100))},
     entryPrice : {None, Some(U(100))},
     size : {None, Some(1), Some(0 - 2)},
     contracts : {None, Some(1), Some(0 - 2)}]

\* update_trailing_stop: pos_symbol, entry_val, size_val and the key made of them
EngineKey(raw) ==
    <<OrElseStr(raw.info_product_symbol, GetOr(raw.symbol, "unknown")),
      OrElse(raw.info_entry_price, raw.entryPrice),
      OrElse(raw.size, raw.contracts)>>

\* variant: the key of the display is made as the engine makes its own
SupervisorKeyWithFallbacks(raw) == EngineKey(raw)

\* track: the key of the max_profit lookup and of last_display
SupervisorKey(raw) == <<raw.info_product_symbol, raw.info_entry_price, raw.size>>

\* the record as the engine reads it: the symbol, the entry price and the
\* size it found (float(size_val or 0))
FromRaw(raw) ==
    LET k == EngineKey(raw)
    IN  [symbol |-> k[1][1], entry |-> k[2], size |-> IF k[3] = None THEN 0 ELSE k[3][1]]

\* a key as the tables hold it; the engine stores under keys whose three
\* values are present only
StoredKey(k) == <<k[1][1], k[2], k[3][1]>>

\* self.position_max_profit.get(key, 0) in track
SupervisorLookup(raw, maxTab) ==
    LET k == SupervisorKey(raw)
    IN  IF k[1] = None \/ k[2] = None \/ k[3] = None
        THEN 0
        ELSE GetOrZero(maxTab, StoredKey(k))

\* fetch_open_positions keeps a record whose size (size or contracts) is not
\* zero and whose symbol (info.product_symbol or symbol) contains SYMBOL
RawOpen(raw) ==
    /\ OrElse(raw.size, raw.contracts) # None
    /\ OrElseStr(raw.info_product_symbol, GetOr(raw.symbol, "")) = Some(SYMBOL)

\* a poll: the venue holds no position, or one whose record has any of the
\* shapes; an empty result clears the tables
KeyPoll ==
    /\ \E list \in {<<>>} \cup {<<raw>> : raw \in RawPositions} :
          /\ cached_positions' = SelectSeq(list, RawOpen)
          /\ IF cached_positions' = <<>>
             THEN /\ position_trailing_stop' = ClearedStops(position_trailing_stop)
                  /\ position_max_profit' = ClearedMax(position_max_profit)
             ELSE UNCHANGED engine_vars
    /\ engine_ret' = None
    /\ UNCHANGED <<feed_vars, signal_vars, venue_vars, now_ms, pc, wait_time, elapsed,
                   last_had_positions, live_price, close_failed, tm_vars,
                   reopen, last_eval, verified_closed>>

\* one pass of track's for loop up to the lookup: the engine's update for
\* the cached record at the live price of the cycle
KeyCycle ==
    /\ cached_positions # <<>>
    /\ \E live \in Prices :
          LET r == update_trailing_stop(FromRaw(cached_positions[1]), live,
                                        take_profit_detected,
                                        position_max_profit, position_trailing_stop)
          IN  /\ live_price' = Some(live)
              /\ engine_ret' = r.ret
              /\ position_max_profit' = r.max
              /\ position_trailing_stop' = r.stop
    /\ UNCHANGED <<feed_vars, signal_vars, venue_vars, now_ms, pc, wait_time, elapsed,
                   cached_positions, last_had_positions, close_failed, tm_vars,
                   reopen, last_eval, verified_closed>>

NextKey ==
    \/ KeyPoll
    \/ KeyCycle

SpecKey == Init /\ [][NextKey]_vars


SpecConn == Init /\ [][NextConn]_vars

----------------------------------------------------------------------------
(* Properties *)

\* a step in which the supervisor calls update_trailing_stop: the call of
\* the for loop (line 232) or the call inside book_profit (line 123)
EngineStep ==
    \/ pc = "top" /\ pc' = "book"
    \/ pc = "book" /\ pc' \in {"verify", "sleep"}

\* the step in which book_profit decides about the close order
BookStep == pc = "book" /\ pc' \in {"verify", "sleep"}

\* the step in which a place_market_order call runs its checks and submits
CallStep == tm_last = None /\ tm_last' # None

\* C1: after each update_trailing_stop call the stored max favorable
\* excursion of the position's identity is max(previous record or 0, current
\* profit), and so it is never lower than before the call.
C1_MaxIsRunningMax ==
    [][EngineStep =>
         LET pos == cached_positions'[1]
             key == <<pos.symbol, pos.entry, pos.size>>
             live == live_price'[1]
             before == IF key \in DOMAIN position_max_profit
                       THEN position_max_profit[key] ELSE 0
             profit == IF pos.size > 0 THEN live - pos.entry[1]
                       ELSE pos.entry[1] - live
         IN  /\ key \in DOMAIN position_max_profit'
             /\ position_max_profit'[key] = IF before >= profit THEN before ELSE profit
             /\ position_max_profit'[key] >= before]_vars

\* C1 witness: the long entered at 100.0 has reached an excursion of 450.0
\* and the engine has just run on a price retraced to 99.4
C1_Witness ==
    /\ pc = "book"
    /\ cached_positions = <<LongPos>>
    /\ live_price = Some(994)
    /\ Key(LongPos) \in DOMAIN position_max_profit
    /\ position_max_profit[Key(LongPos)] = 4500

\* C2 (as claimed): in no step that leaves the venue's open position as it
\* is, is the recorded max favorable excursion of that position removed or
\* lowered.
C2_RecordKeptWhileOpen ==
    [][(/\ venue_position # None
        /\ venue_position' = venue_position
        /\ Key(venue_position[1]) \in DOMAIN position_max_profit)
       => (/\ Key(venue_position[1]) \in DOMAIN position_max_profit'
           /\ position_max_profit'[Key(venue_position[1])]
                 >= position_max_profit[Key(venue_position[1])])]_vars

\* C3: the engine returns lock_50 if and only if the take-profit flag is
\* true and the max favorable excursion after the tick is at least 400
\* (400 included); otherwise it returns fixed_stop.
C3_RuleSelection ==
    [][EngineStep =>
         LET pos == cached_positions'[1]
             key == <<pos.symbol, pos.entry, pos.size>>
             lock == take_profit_detected /\ position_max_profit'[key] >= U(400)
         IN  /\ engine_ret' # None
             /\ engine_ret'[1].rule = IF lock THEN "lock_50" ELSE "fixed_stop"]_vars

\* C3 witness: lock_50 selected with an excursion of exactly 400 (the short
\* entered at 450.0, price 50.0)
C3_Witness ==
    /\ engine_ret # None
    /\ engine_ret[1].rule = "lock_50"
    /\ cached_positions = <<ShortPos>>
    /\ position_max_profit[Key(ShortPos)] = U(400)

\* C4: under fixed_stop the stop is entry - entry * 0.6 / 100 for a long and
\* entry + entry * 0.6 / 100 for a short, whatever the live price and the
\* max favorable excursion are.
C4_FixedStopValue ==
    (engine_ret # None /\ engine_ret[1].rule = "fixed_stop") =>
        LET pos == cached_positions[1]
            offset == (pos.entry[1] * 6) \div 1000
        IN  /\ engine_ret[1].stop =
                  IF pos.size > 0 THEN pos.entry[1] - offset ELSE pos.entry[1] + offset
            /\ position_trailing_stop[Key(pos)] = engine_ret[1].stop

\* C4 witness: the long entered at 100.0 has the fixed stop 99.4 while its
\* excursion is 450.0 and the price 550.0
C4_Witness ==
    /\ engine_ret # None
    /\ engine_ret[1].rule = "fixed_stop"
    /\ engine_ret[1].stop = 994
    /\ cached_positions = <<LongPos>>
    /\ live_price = Some(5500)
    /\ position_max_profit[Key(LongPos)] = 4500

\* C5: under lock_50 the stop is entry + max / 2 for a long and
\* entry - max / 2 for a short.
C5_LockHalfValue ==
    (engine_ret # None /\ engine_ret[1].rule = "lock_50") =>
        LET pos == cached_positions[1]
            half == position_max_profit[Key(pos)] \div 2
        IN  /\ engine_ret[1].stop =
                  IF pos.size > 0 THEN pos.entry[1] + half ELSE pos.entry[1] - half
            /\ position_trailing_stop[Key(pos)] = engine_ret[1].stop

\* C5 witness: the long entered at 100.0 with an excursion of 450.0 has the
\* lock_50 stop 325.0
C5_Witness ==
    /\ engine_ret # None
    /\ engine_ret[1].rule = "lock_50"
    /\ engine_ret[1].stop = 3250
    /\ cached_positions = <<LongPos>>
    /\ position_max_profit[Key(LongPos)] = 4500

\* C6: book_profit submits a close order exactly when the live price is
\* strictly beyond the stop it computed (long: live < stop, short:
\* live > stop); the order is forced, on the opposite side and for the
\* absolute size of the position.
C6_CloseIffBreach ==
    [][BookStep =>
         LET pos == cached_positions[1]
             live == live_price[1]
             stop == engine_ret'[1].stop
             beyond == \/ pos.size > 0 /\ live < stop
                       \/ pos.size < 0 /\ live > stop
         IN  IF beyond
             THEN /\ Len(sent') = Len(sent) + 1
                  /\ SubSeq(sent', 1, Len(sent)) = sent
                  /\ sent'[Len(sent')].symbol = SYMBOL
                  /\ sent'[Len(sent')].type = "market"
                  /\ sent'[Len(sent')].side = (IF pos.size > 0 THEN "sell" ELSE "buy")
                  /\ sent'[Len(sent')].amount = (IF pos.size > 0 THEN pos.size
                                                 ELSE 0 - pos.size)
                  /\ tm_last' # None
                  /\ tm_last'[1].force
             ELSE /\ sent' = sent
                  /\ tm_last' = tm_last]_vars

\* C6 witness: the short of 2 is closed by a buy of 2 at a price above its stop
C6_Witness ==
    /\ pc \in {"verify", "sleep"}
    /\ cached_positions = <<ShortPos>>
    /\ live_price = Some(5500)
    /\ Len(sent) = 1
    /\ sent[1].side = "buy"
    /\ sent[1].amount = 2

\* C7: when the verification of a forced call finds the position still open,
\* the call returns absent, the two tables are as they were when the call
\* was made, and the position is still cached and recorded.
C7_FailedVerificationFrame ==
    [][(/\ pc = "verify"
        /\ pc' = "sleep"
        /\ tm_call[1].force
        /\ venue_position # None
        /\ tm_ret' # "raised")
       => (/\ tm_ret' = "none"
           /\ position_max_profit' = tm_call[1].tables.max
           /\ position_trailing_stop' = tm_call[1].tables.stop
           /\ cached_positions' = cached_positions
           /\ Key(cached_positions[1]) \in DOMAIN position_max_profit'
           /\ Key(cached_positions[1]) \in DOMAIN position_trailing_stop')]_vars

\* C7 witness: a forced close of the short was accepted, its verification
\* found the short still open and the call returned absent
C7_Witness ==
    /\ pc = "sleep"
    /\ tm_ret = "none"
    /\ tm_last # None
    /\ tm_last[1].force
    /\ venue_order_seq = 1
    /\ venue_position = Some(ShortPos)
    /\ cached_positions = <<ShortPos>>
    /\ Key(ShortPos) \in DOMAIN position_max_profit

\* C8 (as claimed): a cycle that ends after a forced close failed, with the
\* same position still open and the price beyond any stop the engine can
\* compute for it (below the fixed stop of a long, above the fixed stop of a
\* short), has submitted a new forced close.
C8_RetriedEveryCycle ==
    (/\ pc = "sleep"
     /\ close_failed = "earlier"
     /\ venue_position # None
     /\ current_price # None
     /\ LET pos == venue_position[1]
            offset == (pos.entry[1] * 6) \div 1000
        IN  \/ pos.size > 0 /\ current_price[1] < pos.entry[1] - offset
            \/ pos.size < 0 /\ current_price[1] > pos.entry[1] + offset)
    => (/\ sent # <<>>
        /\ tm_last # None
        /\ tm_last[1].force)

\* C9 (as claimed): a non-forced call returns absent, submits nothing and
\* appends nothing to the cache or the archive whenever the venue holds a
\* same-side position, the venue has a same-side open order, or the cache
\* holds a same-side open or pending entry younger than 60 s.
C9_NonForcedShortCircuit ==
    [][(/\ CallStep
        /\ ~tm_last'[1].force
        /\ LET side == tm_last'[1].side
           IN  \/ /\ venue_position # None
                  /\ \/ side = "buy" /\ venue_position[1].size > 0
                     \/ side = "sell" /\ venue_position[1].size < 0
               \/ side \in venue_open_orders
               \/ \E i \in 1..Len(orders) :
                     /\ orders[i].side = side
                     /\ orders[i].status \in {"open", "pending"}
                     /\ now_ms - orders[i].timestamp < 60000)
       => (/\ tm_ret' = "none"
           /\ sent' = <<>>
           /\ Len(orders') <= Len(orders)
           /\ archive' = archive)]_vars

\* C10: a forced call is stopped by none of the three checks: it submits its
\* request whatever the venue's position, the venue's open orders and the
\* cache are, and the request has reduce_only set to true.
C10_ForcedSubmitsReduceOnly ==
    [][(CallStep /\ tm_last'[1].force)
       => (/\ tm_ret' \in {"pending", "raised"}
           /\ Len(sent') = 1
           /\ sent'[1].side = tm_last'[1].side
           /\ sent'[1].amount = tm_last'[1].amount
           /\ "reduce_only" \in DOMAIN sent'[1].params
           /\ sent'[1].params.reduce_only = TRUE)]_vars

\* C10 witness: a forced buy was submitted although the venue holds a long,
\* reports an open buy order and the cache has a fresh open buy entry
C10_Witness ==
    /\ tm_last # None
    /\ tm_last[1].force
    /\ tm_last[1].side = "buy"
    /\ tm_ret = "raised"
    /\ Len(sent) = 1
    /\ sent[1].params.reduce_only
    /\ venue_position = Some(LongPos)
    /\ "buy" \in venue_open_orders
    /\ \E i \in 1..Len(orders) :
          /\ orders[i].side = "buy"
          /\ orders[i].status = "open"
          /\ now_ms - orders[i].timestamp < 60000

\* the step in which a place_market_order call makes its verification poll
VerifyStep == tm_call # None /\ tm_call' = None

\* whether the venue's position is what the call waiting in tm_call intends:
\* none left for a forced call, one on the order's side for a non-forced call
IntendedOutcome ==
    IF tm_call[1].force
    THEN venue_position = None
    ELSE /\ venue_position # None
         /\ \/ tm_call[1].side = "buy" /\ venue_position[1].size > 0
            \/ tm_call[1].side = "sell" /\ venue_position[1].size < 0

\* C11 (as claimed): an accepted call returns the order record only if the
\* venue shows the intended outcome, and returns absent in every other case.
C11_OrderOrAbsent ==
    [][VerifyStep =>
         /\ tm_ret' = "order" => IntendedOutcome
         /\ tm_ret' # "order" => tm_ret' = "none"]_vars

\* C11 (amended): an accepted call returns the order record only if the
\* verification poll shows the intended outcome; when the poll returns and
\* shows anything else the call returns absent; when the poll raises, the
\* call raises.
C11_OrderOnlyIfVerified ==
    [][VerifyStep =>
         /\ tm_ret' \in {"order", "none", "raised"}
         /\ tm_ret' = "order" => IntendedOutcome
         /\ (tm_ret' # "raised" /\ ~IntendedOutcome) => tm_ret' = "none"
         /\ (tm_ret' # "raised" /\ IntendedOutcome) => tm_ret' = "order"]_vars

\* C11 witness: a non-forced sell was accepted and not filled while the venue
\* holds a long; the poll found the long and the call returned absent
C11_Witness ==
    /\ tm_ret = "none"
    /\ tm_call = None
    /\ tm_last # None
    /\ ~tm_last[1].force
    /\ tm_last[1].side = "sell"
    /\ Len(sent) = 1
    /\ venue_order_seq >= 1
    /\ venue_position = Some(LongPos)

\* C12 (as claimed): a call that gets past the safety checks has put one
\* record into the cache and one into the archive when its checks-and-submit
\* step ends.
C12_RecordedOncePastChecks ==
    [][(CallStep /\ sent' # <<>> /\ Len(sent') > Len(sent))
       => (/\ orders' # <<>>
           /\ orders'[Len(orders')].side = tm_last'[1].side
           /\ orders'[Len(orders')].id = venue_order_seq'
           /\ Len(archive') = Len(archive) + 1
           /\ archive'[Len(archive')] = orders'[Len(orders')])]_vars

\* C12 (amended): a call whose order the venue accepts puts one record into
\* the cache, and one into the archive unless the archive write fails, before
\* the verification poll; the verification changes neither, so the records
\* are there when it fails.  A call whose create_order raises records nothing.
C12_RecordedBeforeVerification ==
    [][/\ (CallStep /\ tm_ret' = "pending")
          => LET o == tm_call'[1].order_info
             IN  /\ o.symbol = tm_last'[1].symbol
                 /\ o.side = tm_last'[1].side
                 /\ o.amount = tm_last'[1].amount
                 /\ Len(orders') >= 1
                 /\ orders'[Len(orders')] = o
                 /\ \A i \in 1..(Len(orders') - 1) : orders'[i].id # o.id
                 /\ archive' \in {archive, Append(archive, o)}
       /\ (CallStep /\ tm_ret' # "pending")
          => /\ Len(orders') <= Len(orders)
             /\ archive' = archive
       /\ VerifyStep
          => /\ orders' = orders
             /\ archive' = archive
             /\ orders[Len(orders)] = tm_call[1].order_info]_vars

\* C12 witness: the verification of an accepted order failed and the order's
\* record is the last of the cache and of the archive
C12_Witness ==
    /\ tm_ret = "none"
    /\ tm_call = None
    /\ venue_order_seq = 1
    /\ Len(orders) = 1
    /\ Len(archive) = 1
    /\ archive[1] = orders[1]
    /\ orders[1].id = 1

\* C13: a call submits at most one order: its checks-and-submit step hands at
\* most one request to exchange.create_order, and its verification hands over
\* none and leaves the venue's orders alone, whatever it finds.
C13_AtMostOneSubmission ==
    [][/\ CallStep => /\ Len(sent') <= Len(sent) + 1
                      /\ venue_order_seq' <= venue_order_seq + 1
       /\ VerifyStep => /\ sent' = sent
                        /\ venue_order_seq' = venue_order_seq
                        /\ tm_ret' # "pending"]_vars

\* C13 witness: a forced call whose verification failed has submitted one
\* order and the venue has accepted one
C13_Witness ==
    /\ tm_ret = "none"
    /\ tm_call = None
    /\ tm_last # None
    /\ tm_last[1].force
    /\ Len(sent) = 1
    /\ venue_order_seq = 1
    /\ venue_position # None

\* C14: the supervisor waits for a price in sleeps of 2 s; it gives up only
\* with no price after 30 s, and from then on it never polls positions,
\* touches its tables or places an order, while ticks and flag writes go on;
\* with a price it leaves the wait for the main loop.  During the wait it
\* polls and places nothing either.
C14_StartupWait ==
    [][/\ (pc = "wait" /\ wait_time' # wait_time /\ pc' = "wait")
          => (current_price = None /\ wait_time < 30 /\ wait_time' = wait_time + 2)
       /\ (pc = "wait" /\ pc' = "terminated")
          => (current_price = None /\ wait_time = 30)
       /\ (pc = "wait" /\ pc' # "wait" /\ current_price # None)
          => (pc' = "top" /\ wait_time <= 30)
       /\ pc \in {"wait", "terminated"}
          => UNCHANGED <<cached_positions, elapsed, last_had_positions,
                         position_max_profit, position_trailing_stop, sent,
                         orders, archive, venue_order_seq, tm_call>>
       /\ pc = "terminated"
          => (pc' = "terminated" /\ ENABLED Tick /\ ENABLED SetTakeProfit)]_vars

\* C14 witness: the supervisor has given up; a price has arrived since, the
\* flag has been set and the venue holds a position nobody has polled
C14_Witness ==
    /\ pc = "terminated"
    /\ current_price # None
    /\ take_profit_detected
    /\ venue_position # None
    /\ cached_positions = <<>>
    /\ elapsed = POSITION_FETCH_INTERVAL

----------------------------------------------------------------------------
(* The tables across position polls *)

\* the step of a cycle in which the position poll is due and made
PollStep == pc = "top" /\ elapsed >= POSITION_FETCH_INTERVAL /\ pc' # "top"

\* the identities of a snapshot
SnapshotKeys(snapshot) == {Key(snapshot[i]) : i \in DOMAIN snapshot}

\* C15: after a position poll, every key of the max-excursion table and of
\* the trailing-stop table is the identity of a position in that poll's
\* snapshot.
C15_NoEntryForAbsentIdentity ==
    [][PollStep =>
          (DOMAIN position_max_profit' \cup DOMAIN position_trailing_stop')
             \subseteq SnapshotKeys(cached_positions')]_vars

\* C16: the first engine update for a position reopened after a recorded
\* position was closed stores max(0, current profit) as its max favorable
\* excursion.
C16_ReopenedStartsFromZero ==
    [][(pc = "top" /\ pc' = "book" /\ reopen \in {"closed", "cleared"}
          /\ reopen' \in {"first_unseen", "first_seen"}) =>
          LET pos == cached_positions'[1]
          IN  position_max_profit'[Key(pos)] =
                 Max(0, CurrentProfit(pos.entry[1], pos.size, live_price'[1]))]_vars

\* C17: a due poll that finds no open position leaves both tables empty,
\* goes to the cycle's sleep without a call to the engine or the order
\* placer, and the tables are still empty and no order has been submitted
\* when the next cycle starts.
C17_EmptyPollClears ==
    [][/\ (PollStep /\ cached_positions' = <<>>) =>
             /\ position_max_profit' = EmptyTable
             /\ position_trailing_stop' = EmptyTable
             /\ pc' = "sleep"
             /\ UNCHANGED <<venue_order_seq, sent, orders, archive, tm_call>>
       /\ (pc = "sleep" /\ cached_positions = <<>> /\ pc' = "top") =>
             /\ position_max_profit' = EmptyTable
             /\ position_trailing_stop' = EmptyTable
             /\ UNCHANGED <<venue_order_seq, orders, archive, tm_call>>]_vars

\* a cycle ended by an empty poll that removed a recorded position's state
C17_Witness ==
    /\ pc = "sleep"
    /\ cached_positions = <<>>
    /\ elapsed = 0
    /\ reopen = "cleared"
    /\ position_max_profit = EmptyTable
    /\ position_trailing_stop = EmptyTable

----------------------------------------------------------------------------
(* The feed's watchdog *)

\* a pass of the monitor's loop
MonitorStep == mon_pc = "sleeping" /\ <<mon_pc, mon_wake>>' # <<mon_pc, mon_wake>>

\* a step in which the monitor reconnects
ReconnectStep == Len(reconnect_times') = Len(reconnect_times) + 1

\* the times of the reconnects made after time t
ReconnectsAfter(t) ==
    {reconnect_times[i] : i \in {j \in DOMAIN reconnect_times : reconnect_times[j] > t}}

\* C18: with the last update at T and none since, the monitor reconnects
\* at no time up to T + threshold, at most once up to T + threshold + 3,
\* and, when it has not been stopped, exactly once in
\* (T + threshold, T + threshold + 3] as soon as that time has passed.
C18_ReconnectWithinGranularity ==
    LET T == last_update_time
        limit == T + RECONNECT_INTERVAL + MONITOR_SLEEP
        window == {r \in ReconnectsAfter(T) : r <= limit}
    IN  /\ \A r \in ReconnectsAfter(T) : r > T + RECONNECT_INTERVAL
        /\ Cardinality(window) <= 1
        /\ (~stop_event /\ clock > limit) => Cardinality(window) = 1

\* the last tick came at 2, the poll at 12 found a silence of exactly the
\* threshold, and the poll at 15 has reconnected
C18_Witness ==
    /\ current_price # None
    /\ last_update_time = 2
    /\ ~stop_event
    /\ clock > last_update_time + RECONNECT_INTERVAL + MONITOR_SLEEP
    /\ reconnect_times = <<15>>

\* C19: a reconnect that follows another one with no tick in between comes
\* at least threshold - 3 seconds after it.
C19_ReconnectsThresholdApart ==
    [][(/\ ReconnectStep
        /\ reconnect_times # <<>>
        /\ last_update_time < reconnect_times[Len(reconnect_times)]) =>
          clock - reconnect_times[Len(reconnect_times)]
             >= RECONNECT_INTERVAL - MONITOR_SLEEP]_vars

\* C20: while the stop event is not set the monitor stays in its loop
\* whatever happens to the connection, and every pass that finds the feed
\* stale starts a new connection, however many reconnects came before.
C20_WatchdogKeepsRunning ==
    [][/\ (mon_pc = "sleeping" /\ ~stop_event) =>
             (mon_pc' = "sleeping" /\ mon_wake' \in {mon_wake, clock + MONITOR_SLEEP})
       /\ (MonitorStep /\ Stale(clock, last_update_time)) =>
             (ReconnectStep /\ ws_state' = "open")]_vars

\* the third reconnect in a row has been made and its connection has
\* closed again, with the monitor still in its loop
C20_Witness ==
    /\ Len(reconnect_times) = 3
    /\ ws_state = "closed"
    /\ mon_pc = "sleeping"
    /\ ~stop_event

\* C21: once the stop event is set, the monitor makes no reconnect.
C21_NoReconnectAfterStop ==
    [][stop_event => ~ReconnectStep]_vars

\* C22: the stored price is absent until the first valid trade message is
\* handled and from then on is the price of the latest valid trade message
\* handled, whatever else has happened to the feed.
C22_PriceIsLatestTick ==
    current_price = handled.tick

\* the price of a tick is still there after a malformed message, a
\* reconnect and stop
C22_Witness ==
    /\ current_price # None
    /\ handled.last # None
    /\ handled.last[1] \in MalformedMessages
    /\ reconnect_times # <<>>
    /\ stop_event
    /\ ws_state = "closed"

\* C23: handling a message that is not valid JSON, lacks one of p, q, m or
\* has a price float() rejects changes neither the stored price nor the
\* stored time of the last update, and the handler ends by its early
\* return or by logging the exception it caught.
C23_MalformedMessageIgnored ==
    [][(handled' # handled /\ handled'.last[1] \in MalformedMessages) =>
          /\ UNCHANGED <<current_price, last_update_time>>
          /\ on_message(handled'.last[1], current_price, last_update_time, clock).outcome
                \in {"dropped", "logged"}]_vars

\* a malformed message has been handled some time after a tick
C23_Witness ==
    /\ handled.last # None
    /\ handled.last[1] \in MalformedMessages
    /\ current_price # None
    /\ clock > last_update_time

\* C24: whenever the lock is free, so that a reader can take it, the stored
\* price and the stored time were written by the same message.
C24_PriceAndTimeTogether ==
    ws_lock = None => written.price_by = written.time_by

\* the thread of the new connection has stored its message while the
\* thread of the old one waits for the lock with a message of its own
C24_Witness ==
    /\ ws_lock = None
    /\ written.price_by = Some(<<"new", 1>>)
    /\ written.time_by = Some(<<"new", 1>>)
    /\ handler["old"].pc = "parsed"
    /\ handler["old"].at < last_update_time

\* C25: no step makes last_update_time smaller.
C25_TimestampNeverDecreases ==
    [][last_update_time' >= last_update_time]_vars

\* after a reconnect both threads have stored a message, the thread of the
\* old connection last
C25_Witness ==
    /\ written.time_by = Some(<<"old", 1>>)
    /\ handler["new"].n = 1
    /\ handler["new"].pc = "idle"
    /\ reconnect_times # <<>>
    /\ last_update_time > 0

----------------------------------------------------------------------------
(* Positions the engine cannot evaluate, and venue failures *)

\* position records with a zero size or without an entry price
UnusablePositions ==
    {FlatPos, NoEntryPos, [symbol |-> SYMBOL, entry |-> None, size |-> 0]}

\* the states of track's main loop
MainLoop == {"top", "book", "verify", "sleep"}

\* C26: for a position with a zero size or without a usable entry price,
\* update_trailing_stop returns the absent result and leaves both tables as
\* they are, whatever the tables, the price and the flag.
C26_UnusablePositionNoEffect ==
    \A pos \in UnusablePositions, live \in Prices :
       update_trailing_stop(pos, live, take_profit_detected,
                            position_max_profit, position_trailing_stop)
          = [ret |-> None, max |-> position_max_profit, stop |-> position_trailing_stop]

\* the engine has been called for a position without entry price while the
\* tables held the record of another position
C26_Witness ==
    /\ cached_positions = <<NoEntryPos>>
    /\ live_price # None
    /\ engine_ret = None
    /\ pc = "crashed"
    /\ position_max_profit # EmptyTable
    /\ position_trailing_stop # EmptyTable

\* C27: a cycle that evaluates a cached position with a non-zero size and
\* no usable entry price places no order and ends with the cycle's sleep.
C27_AbsentResultSkipsCycle ==
    [][(/\ pc = "top" /\ pc' # "top"
        /\ current_price # None
        /\ cached_positions' # <<>>
        /\ cached_positions'[1].entry = None) =>
          (pc' = "sleep" /\ sent' = sent)]_vars

\* C28: a step of the main loop leads back into the main loop, except the
\* evaluation of a position without usable entry price; in particular the
\* cycle goes to its sleep after an empty or failed poll, after an order
\* placement that raised and after a failed verification.
C28_VenueFailureNotFatal ==
    [][(pc \in MainLoop) =>
          (/\ \/ pc' \in MainLoop
              \/ /\ pc = "top"
                 /\ cached_positions' # <<>>
                 /\ cached_positions'[1].entry = None
           /\ (PollStep /\ cached_positions' = <<>>) => pc' = "sleep"
           /\ (pc \in {"book", "verify"} /\ tm_ret' \in {"raised", "none"}) =>
                 pc' = "sleep")]_vars

\* the supervisor is at the top of a cycle after a poll that failed while a
\* position was open and after a forced close that failed in an earlier cycle
C28_Witness ==
    /\ pc = "top"
    /\ close_failed = "earlier"
    /\ cached_positions = <<>>
    /\ venue_position # None

----------------------------------------------------------------------------
(* The take-profit flag *)

\* C29: the flag is false at the start; a step changes the flag or the last
\* processed signal only by processing a signal whose text differs from
\* the last processed one, and the flag is then true exactly when that
\* text is "tp" or "take profit" (the two texts of the model that contain
\* one of the two marks); every other step keeps the flag.
C29_FlagFollowsSignals ==
    /\ take_profit_detected = FALSE
    /\ [][(take_profit_detected' # take_profit_detected \/ signal_call' # signal_call) =>
             /\ signal_call' # signal_call
             /\ signal_call' # None
             /\ Some(signal_call'[1].text) # last_signal
             /\ take_profit_detected' =
                   (signal_call'[1].text \in {TP_TEXT, TAKE_PROFIT_TEXT})]_vars

\* the flag was set by "tp", has outlived supervisor cycles and is being
\* used while a close order is verified
C29_Witness ==
    /\ take_profit_detected
    /\ last_signal = Some(TP_TEXT)
    /\ pc = "verify"
    /\ current_price # None

----------------------------------------------------------------------------
(* The snapshot cache *)

\* C30: a cycle polls (and restarts the time since the last poll) exactly
\* when at least 5 seconds have passed since the previous poll; the poll
\* makes the cached snapshot the filtered list the venue returned (the
\* empty list when the query failed); every other step, the placing and
\* the verification of a close order included, leaves the snapshot alone.
C30_PollEveryFiveSeconds ==
    [][/\ (pc = "top" /\ pc' # "top") =>
             ((elapsed' = 0) <=> (elapsed >= POSITION_FETCH_INTERVAL))
       /\ PollStep =>
             cached_positions' \in {fetch_open_positions(pq) : pq \in PositionQuery}
       /\ ~PollStep => cached_positions' = cached_positions]_vars

\* a cycle without poll has closed the position at the venue and the
\* snapshot still shows it
C30_Witness ==
    /\ pc = "sleep"
    /\ elapsed = 3
    /\ tm_ret = "order"
    /\ venue_position = None
    /\ cached_positions # <<>>

----------------------------------------------------------------------------
(* The local order cache and the archive *)

\* a non-forced call that its two live checks cannot stop: the venue holds
\* no position on the order's side and reports no open order on that side
LiveChecksPass(side) ==
    /\ ~(/\ venue_position # None
         /\ \/ side = "buy" /\ venue_position[1].size > 0
            \/ side = "sell" /\ venue_position[1].size < 0)
    /\ side \notin venue_open_orders

\* C31: when a non-forced call gets past its two live checks, no entry
\* older than 60000 ms is in the cache after the call's checks-and-submit
\* step, and unless the cache holds a same-side open or pending entry that
\* is not older than that, the call hands its request to the venue: an
\* older entry does not stop it.
C31_StaleEntriesPruned ==
    [][(/\ CallStep
        /\ ~tm_last'[1].force
        /\ LiveChecksPass(tm_last'[1].side) \/ sent' # <<>>)
       => (/\ \A i \in 1..Len(orders') : now_ms - orders'[i].timestamp <= 60000
           /\ (~\E i \in 1..Len(orders) :
                    /\ orders[i].side = tm_last'[1].side
                    /\ orders[i].status \in {"open", "pending"}
                    /\ now_ms - orders[i].timestamp <= 60000)
              => sent' # <<>>)]_vars

\* C31 witness: an open order of the same side, accepted 61 s earlier, was
\* in the cache (the archive still shows it); the non-forced call has
\* removed it and has handed its own request to the venue, which refused it
C31_Witness ==
    /\ tm_last # None
    /\ ~tm_last[1].force
    /\ now_ms = 61000
    /\ archive # <<>>
    /\ archive[1].side = tm_last[1].side
    /\ archive[1].status = "open"
    /\ archive[1].timestamp = 0
    /\ tm_call = None
    /\ orders = <<>>
    /\ Len(sent) = 1
    /\ tm_ret = "raised"

\* C32: a step that appends a record to the archive leaves at most 1000
\* entries, which are the new record after the latest entries of the list
\* before, in their order.
C32_ArchiveBounded ==
    [][(archive' # archive)
       => (/\ Len(archive') <= 1000
           /\ archive'[Len(archive')].id = LastArchived(archive) + 1
           /\ \A i \in 1..(Len(archive') - 1) :
                 archive'[i] = archive[i + Len(archive) + 1 - Len(archive')])]_vars

----------------------------------------------------------------------------
(* The stop from cycle to cycle *)

\* C33: when a cycle computes the stop for the position the venue has held
\* since an earlier cycle computed one, and the take-profit flag is what it
\* was then, the new stop is not below the earlier one for a long and not
\* above it for a short.
C33_StopNeverRetreats ==
    [][(/\ pc = "top"
        /\ pc' = "book"
        /\ last_eval # None
        /\ venue_position = Some(cached_positions'[1])
        /\ last_eval[1].flag = take_profit_detected)
       => IF cached_positions'[1].size > 0
          THEN engine_ret'[1].stop >= last_eval[1].stop
          ELSE engine_ret'[1].stop <= last_eval[1].stop]_vars

----------------------------------------------------------------------------
(* After the close *)

\* C34: once place_market_order has returned the order of a forced close
\* (its poll showed no open position of the symbol), and while the venue
\* holds no position, book_profit hands no request to the venue for the
\* position that was closed.
C34_NoCloseAfterVerifiedClose ==
    [][(/\ pc = "book"
        /\ verified_closed # None
        /\ verified_closed[1] = Key(ThePos))
       => sent' = sent]_vars

\* C35: when the cycle's book_profit call is over, it has returned true
\* only if its place_market_order call returned the verified order, and it
\* has returned false if that call returned absent or raised.
C35_BookedOnlyIfVerified ==
    (pc = "sleep")
    => (/\ book_profit_returns(tm_ret) => tm_ret = "order"
        /\ tm_ret \in {"none", "raised"} => ~book_profit_returns(tm_ret))

----------------------------------------------------------------------------
(* The feed's connections *)

OpenConnections == {i \in 1..Len(connections) : connections[i] = "open"}

----------------------------------------------------------------------------
(* The displayed stop and the stop of the decision *)

\* C37: the rule and the stop book_profit gets from the engine for its
\* breach test are the rule and the stop the same cycle got for its display
\* a few lines earlier.
C37_DisplayedIsDecided ==
    [][BookStep
       => (/\ engine_ret'[1].rule = engine_ret[1].rule
           /\ engine_ret'[1].stop = engine_ret[1].stop)]_vars

----------------------------------------------------------------------------
(* The signal loop *)

\* C38: process_signal is called only for a signal whose text is not empty
\* and differs from the last processed one's, and once it has been called
\* for a signal, however the call ended, that signal is the last processed
\* one.
C38_ProcessedOnce ==
    [][(signal_call' # signal_call)
       => (/\ signal_call'[1].text # <<>>
           /\ Some(signal_call'[1].text) # last_signal
           /\ last_signal' = Some(signal_call'[1].text))]_vars

----------------------------------------------------------------------------
(* The keys of the supervisor and of the engine *)

\* C39: whatever the shape of the record, when the engine has stored the
\* state of the cached position, the key track looks the max excursion up
\* with (its last_display key too) is the key the engine stored under, and
\* the lookup gives the stored excursion.
C39_SupervisorKeyIsEngineKey ==
    [][(cached_positions # <<>> /\ engine_ret' # None)
       => (LET raw == cached_positions[1]
           IN  /\ SupervisorKey(raw) = EngineKey(raw)
               /\ SupervisorLookup(raw, position_max_profit')
                     = position_max_profit'[Key(FromRaw(raw))])]_vars

====
